---------------------------- MODULE Spec2Model ----------------------------
(***************************************************************************)
(* Finance-Flow transaction categorization engine                          *)
(* (backend/categorization/ml_categorizer.py) and its callers.             *)
(*                                                                         *)
(* Text is modelled with TLA+ strings; confidences and probabilities are   *)
(* integer percentages (0.95 is 95), which keeps every comparison the code *)
(* makes (> 0.85, > 0.40, > 0.25, > 0.5, min(0.85, 0.15 * score)) exact.   *)
(***************************************************************************)
EXTENDS Integers, Sequences, FiniteSets, TLC

(***************************************************************************)
(* Text primitives: str.lower, str.split, str.endswith, the `in' substring *)
(* test and the two regular expressions the rule matcher uses.             *)
(***************************************************************************)
UpperLetters == "ABCDEFGHIJKLMNOPQRSTUVWXYZ"

LowerLetters == "abcdefghijklmnopqrstuvwxyz"

DigitChars == "0123456789"

CharAt(s, i) == SubSeq(s, i, i)

CharsOf(s) == {CharAt(s, i) : i \in 1..Len(s)}

\* \w of the re module, restricted to ASCII
WordChars == CharsOf(UpperLetters) \cup CharsOf(LowerLetters) \cup CharsOf(DigitChars) \cup {"_"}

IsWordChar(c) == c \in WordChars

\* str.lower on one character
LowerChar(c) ==
  IF c \in CharsOf(UpperLetters)
  THEN CharAt(LowerLetters, CHOOSE i \in 1..Len(UpperLetters) : CharAt(UpperLetters, i) = c)
  ELSE c

RECURSIVE Lower(_)
\* description.lower()
Lower(s) == IF s = "" THEN "" ELSE LowerChar(CharAt(s, 1)) \o Lower(Tail(s))

\* s.endswith(suffix)
EndsWith(s, suffix) ==
  /\ Len(s) >= Len(suffix)
  /\ SubSeq(s, Len(s) - Len(suffix) + 1, Len(s)) = suffix

\* s[:-n]
DropLast(s, n) == SubSeq(s, 1, Len(s) - n)

\* sub in s
Contains(s, sub) ==
  \E i \in 1..(Len(s) - Len(sub) + 1) : SubSeq(s, i, i + Len(sub) - 1) = sub

\* \b between the k-th and the (k+1)-th character of s (k = 0: before the first)
WordBoundary(s, k) ==
  LET left  == k >= 1 /\ IsWordChar(CharAt(s, k))
      right == k < Len(s) /\ IsWordChar(CharAt(s, k + 1))
  IN  left # right

\* Variant of WordSearch that finds nothing.  C15_YogaIsARuleHit does not hold
\* of it.
WordSearch_Never(keyword, s) == FALSE

\* re.search(r'\b' + re.escape(keyword) + r'\b', s)
WordSearch(keyword, s) ==
  \E i \in 1..(Len(s) - Len(keyword) + 1) :
     /\ SubSeq(s, i, i + Len(keyword) - 1) = keyword
     /\ WordBoundary(s, i - 1)
     /\ WordBoundary(s, i + Len(keyword) - 1)

RECURSIVE Tokens(_, _, _, _)
\* the maximal runs of characters of s, from position i on, that satisfy
\* isTokenChar; cur is the run being read
Tokens(s, i, cur, wordOnly) ==
  LET c     == CharAt(s, i)
      inTok == IF wordOnly THEN IsWordChar(c) ELSE c # " "
      flush == IF cur = "" THEN <<>> ELSE <<cur>>
  IN  IF i > Len(s) THEN flush
      ELSE IF inTok THEN Tokens(s, i + 1, cur \o c, wordOnly)
      ELSE flush \o Tokens(s, i + 1, "", wordOnly)

\* re.findall(r'\b\w+\b', s)
FindallWords(s) == Tokens(s, 1, "", TRUE)

\* s.split()
Split(s) == Tokens(s, 1, "", FALSE)

SeqToSet(q) == {q[i] : i \in 1..Len(q)}

(***************************************************************************)
(* TransactionCategorizer._simple_stem                                     *)
(***************************************************************************)
\* Variant of _simple_stem that tests the ending "s" before the ending "es".
\* C24_StemPrecedence does not hold of it.
_simple_stem_SBeforeEs(word) ==
  IF Len(word) <= 2 THEN word
  ELSE IF EndsWith(word, "ies") /\ Len(word) > 4 THEN DropLast(word, 3) \o "y"
  ELSE IF EndsWith(word, "s") /\ Len(word) > 2 /\ ~EndsWith(word, "ss") THEN DropLast(word, 1)
  ELSE IF EndsWith(word, "es") /\ Len(word) > 3 /\ ~EndsWith(word, "ses") THEN DropLast(word, 2)
  ELSE IF EndsWith(word, "ing") /\ Len(word) > 4 THEN DropLast(word, 3)
  ELSE IF EndsWith(word, "ed") /\ Len(word) > 3 THEN DropLast(word, 2)
  ELSE word

_simple_stem(word) ==
  IF Len(word) <= 2 THEN word
  ELSE IF EndsWith(word, "ies") /\ Len(word) > 4 THEN DropLast(word, 3) \o "y"
  ELSE IF EndsWith(word, "es") /\ Len(word) > 3 /\ ~EndsWith(word, "ses") THEN DropLast(word, 2)
  ELSE IF EndsWith(word, "s") /\ Len(word) > 2 /\ ~EndsWith(word, "ss") THEN DropLast(word, 1)
  ELSE IF EndsWith(word, "ing") /\ Len(word) > 4 THEN DropLast(word, 3)
  ELSE IF EndsWith(word, "ed") /\ Len(word) > 3 THEN DropLast(word, 2)
  ELSE word

(***************************************************************************)
(* The category catalog (transactions.models.Category).  An entry is       *)
(* identified by (name, user, is_system); system entries have no user.     *)
(* Names are compared the way the ORM lookup name=... compares them:       *)
(* exact string equality.                                                  *)
(***************************************************************************)
NoUser == "none"

\* Python's None where a Category is expected
None == [name |-> "", user |-> NoUser, is_system |-> FALSE]

SystemCategory(name) == [name |-> name, user |-> NoUser, is_system |-> TRUE]

UserCategory(name, owner) == [name |-> name, user |-> owner, is_system |-> FALSE]

\* Variant of Category_get in the manner of get_or_create: a missing name
\* yields an entry instead of Category.DoesNotExist.  C10_LookupMiss does not
\* hold of it.
Category_get_or_create(categories, name) == SystemCategory(name)

\* Category.objects.get(name=name, is_system=True); None stands for
\* Category.DoesNotExist
Category_get(categories, name) ==
  LET rows == {c \in categories : c.name = name /\ c.is_system}
  IN  IF rows = {} THEN None ELSE CHOOSE c \in rows : TRUE

\* Category.objects.filter(name=name, user=user).first()
Category_filter_user_first(categories, name, owner) ==
  LET rows == {c \in categories : c.name = name /\ c.user = owner}
  IN  IF rows = {} THEN None ELSE CHOOSE c \in rows : TRUE

\* Category.objects.filter(name=name, is_system=True).first()
Category_filter_system_first(categories, name) ==
  LET rows == {c \in categories : c.name = name /\ c.is_system}
  IN  IF rows = {} THEN None ELSE CHOOSE c \in rows : TRUE

(***************************************************************************)
(* TransactionCategorizer._rule_based_categorization                       *)
(***************************************************************************)
\* rules, in declaration order (dict order is insertion order)
rules ==
  <<[category |-> "Groceries",
     keywords |-> <<"walmart", "whole foods", "trader joe", "safeway",
                    "kroger", "costco", "grocery", "supermarket",
                    "food market", "aldi", "target food", "food store", "market">>],
    [category |-> "Dining",
     keywords |-> <<"starbucks", "coffee", "restaurant", "mcdonald",
                    "chipotle", "subway", "pizza", "burger", "cafe", "dining",
                    "lunch", "dinner", "breakfast", "taco bell", "wendy",
                    "dunkin", "panera">>],
    [category |-> "Transportation",
     keywords |-> <<"petrol", "gasoline", "gas station", "fuel", "shell",
                    "chevron", "bp", "exxon", "uber", "lyft", "parking",
                    "car wash", "auto", "oil change", "taxi", "metro",
                    "transit", "vehicle", "car service">>],
    [category |-> "Housing",
     keywords |-> <<"rent", "mortgage", "lease", "landlord", "apartment",
                    "house payment", "hoa", "property", "housing", "rental",
                    "condo">>],
    [category |-> "Income",
     keywords |-> <<"salary", "payroll", "paycheck", "wage", "scholarship",
                    "grant", "bonus", "commission", "freelance", "income",
                    "stipend", "award", "earning">>],
    [category |-> "Shopping",
     keywords |-> <<"amazon", "shopping", "shop", "retail", "best buy",
                    "target store", "mall", "nike", "clothing", "online order">>],
    [category |-> "Utilities",
     keywords |-> <<"electric", "electricity", "water", "internet",
                    "phone bill", "cable", "utility", "verizon", "att",
                    "comcast", "spectrum">>],
    [category |-> "Entertainment",
     keywords |-> <<"netflix", "spotify", "hulu", "disney", "hbo", "movie",
                    "concert", "gaming", "entertainment", "streaming", "music">>],
    [category |-> "Healthcare",
     keywords |-> <<"pharmacy", "cvs", "walgreen", "doctor", "dentist",
                    "hospital", "medical", "health", "prescription", "clinic",
                    "eye", "checkup", "check up", "exam", "vision", "optical",
                    "therapy", "treatment", "dermatology", "dermatologist",
                    "skin care">>],
    [category |-> "Fitness",
     keywords |-> <<"gym", "fitness", "yoga", "workout", "trainer", "exercise",
                    "sport", "athlete">>],
    [category |-> "Travel",
     keywords |-> <<"hotel", "airbnb", "airline", "flight", "travel",
                    "vacation", "booking", "trip", "tour", "resort", "cruise",
                    "holiday", "destination", "getaway">>],
    [category |-> "Insurance",
     keywords |-> <<"insurance", "policy", "premium", "coverage">>],
    [category |-> "Subscriptions",
     keywords |-> <<"subscription", "membership", "monthly fee">>],
    [category |-> "Education",
     keywords |-> <<"tuition", "school", "textbook", "course", "udemy",
                    "training", "education">>],
    [category |-> "Pets",
     keywords |-> <<"pet store", "pet shop", "vet", "veterinary", "dog food",
                    "cat food", "pet food", "pet supply", "animal hospital",
                    "pet grooming", "pet">>],
    [category |-> "Investment",
     keywords |-> <<"stock", "401k", "investment", "ira", "brokerage",
                    "portfolio", "share", "equity", "mutual fund", "etf",
                    "bond", "crypto", "bitcoin", "trading", "stock market">>],
    [category |-> "Charity",
     keywords |-> <<"donation", "charity", "church", "fundraiser", "charitable">>],
    [category |-> "Taxes",
     keywords |-> <<"tax", "irs", "accountant", "tax payment">>],
    [category |-> "Personal Care",
     keywords |-> <<"salon", "spa", "haircut", "massage", "cosmetic", "beauty",
                    "skin", "facial", "manicure", "pedicure", "skincare",
                    "skin treatment">>]>>

NoResult == [category |-> None, confidence |-> 0]

\* the positions (ci, ki) of the keywords in rules, in the order the two
\* nested loops `for category_name, keywords in rules.items(): for keyword
\* in keywords' visit them
RulePositions ==
  UNION {{<<ci, ki>> : ki \in 1..Len(rules[ci].keywords)} : ci \in 1..Len(rules)}

\* Variant of ScannedBefore for loops that visit the categories of the rule
\* table from the last to the first.  C22_DeclarationOrder does not hold of
\* it.
ScannedBefore_LastCategoryFirst(p, q) == p[1] > q[1] \/ (p[1] = q[1] /\ p[2] < q[2])

ScannedBefore(p, q) == p[1] < q[1] \/ (p[1] = q[1] /\ p[2] < q[2])

\* Variant of RuleTry whose whole-word match returns 0.85, which predict's
\* test `confidence > 0.85' does not admit.  C1_RuleShortCircuit does not
\* hold of it.
RuleTry_ExactAt85(desc_lower, stemmed_desc_words, categories, p) ==
  LET category_name == rules[p[1]].category
      keyword       == rules[p[1]].keywords[p[2]]
      category      == Category_get(categories, category_name)
  IN  IF category # None /\ WordSearch(keyword, desc_lower) THEN 85
      ELSE IF /\ category # None
              /\ Len(Split(keyword)) = 1
              /\ _simple_stem(keyword) \in stemmed_desc_words
      THEN 90
      ELSE 0

\* Variant of RuleTry that tries the stem before the whole-word search.
\* C16_RuleConfidence does not hold of it.
RuleTry_StemFirst(desc_lower, stemmed_desc_words, categories, p) ==
  LET category_name == rules[p[1]].category
      keyword       == rules[p[1]].keywords[p[2]]
      category      == Category_get(categories, category_name)
  IN  IF /\ category # None
         /\ Len(Split(keyword)) = 1
         /\ _simple_stem(keyword) \in stemmed_desc_words
      THEN 90
      ELSE IF category # None /\ WordSearch(keyword, desc_lower) THEN 95
      ELSE 0

\* one iteration of the inner loop: the confidence it returns, or 0 when it
\* falls through to the next keyword (no match, or Category.DoesNotExist)
RuleTry(desc_lower, stemmed_desc_words, categories, p) ==
  LET category_name == rules[p[1]].category
      keyword       == rules[p[1]].keywords[p[2]]
      category      == Category_get(categories, category_name)
  IN  IF category # None /\ WordSearch(keyword, desc_lower) THEN 95
      ELSE IF /\ category # None
              /\ Len(Split(keyword)) = 1
              /\ _simple_stem(keyword) \in stemmed_desc_words
      THEN 90
      ELSE 0

_rule_based_categorization(text, categories) ==
  LET desc_lower         == Lower(text)
      desc_words         == FindallWords(desc_lower)
      stemmed_desc_words == {_simple_stem(desc_words[i]) : i \in 1..Len(desc_words)}
      returning          == {p \in RulePositions :
                               RuleTry(desc_lower, stemmed_desc_words, categories, p) > 0}
      \* the loops return at the first iteration that returns
      first              == CHOOSE p \in returning : \A q \in returning : ~ScannedBefore(q, p)
  IN  IF returning = {} THEN NoResult
      ELSE [category   |-> Category_get(categories, rules[first[1]].category),
            confidence |-> RuleTry(desc_lower, stemmed_desc_words, categories, first)]

(***************************************************************************)
(* TransactionCategorizer._fuzzy_category_match                            *)
(***************************************************************************)
\* patterns, in declaration order
patterns ==
  <<[category |-> "Investment",
     keywords |-> <<"stock", "invest", "trading", "portfolio", "equity",
                    "bond", "fund", "crypto", "bitcoin", "forex", "market",
                    "asset", "401", "ira", "roth">>,
     indicators |-> <<"buy", "sell", "trade", "exchange", "broker", "dividend",
                      "capital">>],
    [category |-> "Healthcare",
     keywords |-> <<"doctor", "medical", "health", "hospital", "clinic",
                    "pharmacy", "dental", "vision", "therapy", "treatment",
                    "surgery", "medicine", "prescription", "lab", "test",
                    "exam", "checkup", "vaccination">>,
     indicators |-> <<"appointment", "visit", "consultation", "procedure",
                      "injection">>],
    [category |-> "Personal Care",
     keywords |-> <<"salon", "spa", "beauty", "hair", "nail", "skin", "facial",
                    "massage", "manicure", "pedicure", "wax", "laser", "botox",
                    "cosmetic", "makeup">>,
     indicators |-> <<"treatment", "service", "appointment", "session">>],
    [category |-> "Travel",
     keywords |-> <<"hotel", "flight", "airline", "vacation", "trip", "travel",
                    "tour", "resort", "booking", "airbnb", "cruise", "ticket",
                    "passport">>,
     indicators |-> <<"booking", "reservation", "fare", "accommodation">>],
    [category |-> "Dining",
     keywords |-> <<"restaurant", "cafe", "food", "dining", "pizza", "burger",
                    "coffee", "lunch", "dinner", "breakfast", "meal", "eat",
                    "drink", "bar">>,
     indicators |-> <<"delivery", "takeout", "order", "menu", "tip">>],
    [category |-> "Groceries",
     keywords |-> <<"grocery", "supermarket", "walmart", "costco", "market",
                    "store", "food", "produce", "meat", "dairy", "bread",
                    "vegetable", "fruit">>,
     indicators |-> <<"shopping", "weekly", "monthly", "bulk">>],
    [category |-> "Transportation",
     keywords |-> <<"uber", "lyft", "taxi", "gas", "fuel", "petrol", "parking",
                    "metro", "bus", "train", "car", "vehicle", "auto", "oil",
                    "tire", "mechanic">>,
     indicators |-> <<"service", "repair", "maintenance", "wash", "change">>],
    [category |-> "Housing",
     keywords |-> <<"rent", "mortgage", "apartment", "house", "home", "lease",
                    "property", "landlord", "housing", "condo", "realty",
                    "real estate">>,
     indicators |-> <<"payment", "monthly", "deposit", "fee">>],
    [category |-> "Utilities",
     keywords |-> <<"electric", "water", "gas", "internet", "phone", "cable",
                    "wifi", "utility", "bill", "energy", "power", "heating",
                    "cooling">>,
     indicators |-> <<"bill", "service", "monthly", "provider">>],
    [category |-> "Entertainment",
     keywords |-> <<"netflix", "spotify", "hulu", "movie", "concert", "game",
                    "gaming", "entertainment", "music", "streaming", "ticket",
                    "event", "show">>,
     indicators |-> <<"subscription", "membership", "pass">>],
    [category |-> "Shopping",
     keywords |-> <<"amazon", "store", "shop", "retail", "mall", "online",
                    "purchase", "clothing", "electronics", "appliance",
                    "furniture", "book">>,
     indicators |-> <<"order", "delivery", "shipping">>],
    [category |-> "Education",
     keywords |-> <<"school", "college", "university", "tuition", "course",
                    "class", "education", "textbook", "training", "learning",
                    "study">>,
     indicators |-> <<"fee", "payment", "enrollment", "semester">>],
    [category |-> "Fitness",
     keywords |-> <<"gym", "fitness", "yoga", "workout", "exercise", "sport",
                    "trainer", "athletic", "crossfit", "pilates", "martial",
                    "boxing">>,
     indicators |-> <<"membership", "class", "session", "training">>],
    [category |-> "Insurance",
     keywords |-> <<"insurance", "policy", "coverage", "premium", "claim",
                    "auto", "health", "life", "dental", "vision", "disability">>,
     indicators |-> <<"payment", "monthly", "annual", "renewal">>],
    [category |-> "Income",
     keywords |-> <<"salary", "paycheck", "wage", "income", "earning", "bonus",
                    "commission", "scholarship", "grant", "stipend", "award",
                    "refund">>,
     indicators |-> <<"deposit", "payment", "received", "transfer">>],
    [category |-> "Subscriptions",
     keywords |-> <<"subscription", "membership", "monthly", "annual",
                    "recurring", "premium", "plus", "pro", "service">>,
     indicators |-> <<"renewal", "auto", "recurring">>],
    [category |-> "Pets",
     keywords |-> <<"pet", "dog", "cat", "animal", "vet", "veterinary",
                    "grooming", "kennel", "boarding", "food", "toy", "supply">>,
     indicators |-> <<"care", "service", "clinic", "hospital">>],
    [category |-> "Charity",
     keywords |-> <<"donation", "charity", "church", "temple", "mosque",
                    "nonprofit", "foundation", "relief", "fund", "cause",
                    "giving">>,
     indicators |-> <<"contribution", "gift", "support">>],
    [category |-> "Taxes",
     keywords |-> <<"tax", "irs", "federal", "state", "property", "income",
                    "accountant", "filing", "return">>,
     indicators |-> <<"payment", "quarterly", "annual", "preparation">>]>>

\* the score of one entry of patterns: 2 per keyword and 1 per indicator
\* found as a substring, plus the word overlap with the keyword set
FuzzyScore(pattern, desc_lower, desc_words) ==
  LET keywordHits   == {i \in 1..Len(pattern.keywords) : Contains(desc_lower, pattern.keywords[i])}
      indicatorHits == {i \in 1..Len(pattern.indicators) : Contains(desc_lower, pattern.indicators[i])}
      overlap       == desc_words \cap SeqToSet(pattern.keywords)
  IN  2 * Cardinality(keywordHits) + Cardinality(indicatorHits) + Cardinality(overlap)

\* Variant of Min that does not look at its first argument, the cap of
\* min(0.85, ...).  C12_FuzzyBounded does not hold of it.
Min_Second(a, b) == b

Min(a, b) == IF a <= b THEN a ELSE b

Max(a, b) == IF a >= b THEN a ELSE b

\* Variant of _fuzzy_category_match in which the last of the entries with
\* the largest score wins.  C23_FuzzyScoring does not hold of it.
_fuzzy_category_match_LastMax(text, categories) ==
  LET desc_lower == Lower(text)
      desc_words == SeqToSet(Split(desc_lower))
      score      == [i \in 1..Len(patterns) |-> FuzzyScore(patterns[i], desc_lower, desc_words)]
      scored     == {i \in 1..Len(patterns) : score[i] > 0}
      best       == CHOOSE i \in scored :
                      /\ \A j \in scored : score[j] <= score[i]
                      /\ \A j \in scored : j > i => score[j] < score[i]
      confidence == Min(85, score[best] * 15)
      category   == Category_get(categories, patterns[best].category)
  IN  IF scored # {} /\ confidence > 40 /\ category # None
      THEN [category |-> category, confidence |-> confidence]
      ELSE NoResult

_fuzzy_category_match(text, categories) ==
  LET desc_lower == Lower(text)
      desc_words == SeqToSet(Split(desc_lower))
      score      == [i \in 1..Len(patterns) |-> FuzzyScore(patterns[i], desc_lower, desc_words)]
      scored     == {i \in 1..Len(patterns) : score[i] > 0}
      \* max(scores, key=scores.get): the first entry with the largest score
      best       == CHOOSE i \in scored :
                      /\ \A j \in scored : score[j] <= score[i]
                      /\ \A j \in scored : j < i => score[j] < score[i]
      confidence == Min(85, score[best] * 15)
      category   == Category_get(categories, patterns[best].category)
  IN  IF scored # {} /\ confidence > 40 /\ category # None
      THEN [category |-> category, confidence |-> confidence]
      ELSE NoResult

(***************************************************************************)
(* Inputs                                                                  *)
(***************************************************************************)
\* Variant of DefaultNames in which create_default_categories has no
\* "Taxes".  C30_ReferencedNamesExist does not hold of it.
DefaultNames_WithoutTaxes ==
  {"Groceries", "Dining", "Transportation", "Utilities", "Entertainment",
   "Healthcare", "Shopping", "Housing", "Education", "Fitness", "Travel",
   "Insurance", "Subscriptions", "Personal Care", "Pets", "Charity",
   "Income", "Investment"}

\* the system categories of Command.create_default_categories
DefaultNames ==
  {"Groceries", "Dining", "Transportation", "Utilities", "Entertainment",
   "Healthcare", "Shopping", "Housing", "Education", "Fitness", "Travel",
   "Insurance", "Subscriptions", "Personal Care", "Pets", "Charity", "Taxes",
   "Income", "Investment"}

DefaultCatalog == {SystemCategory(n) : n \in DefaultNames}

Without(names) == {c \in DefaultCatalog : c.name \notin names}

\* the catalogs a behaviour can start with: the default one, the default one
\* with entries deleted, with user-defined entries of the same names added,
\* with entries renamed to lower case, user-defined entries only, and none
Catalogs ==
  { DefaultCatalog,
    Without({"Shopping"}),
    Without({"Groceries", "Personal Care"}),
    DefaultCatalog \cup {UserCategory("Groceries", "alice"),
                         UserCategory("Personal Care", "alice"),
                         UserCategory("Shopping", "alice")},
    Without({"Groceries", "Personal Care", "Shopping"})
       \cup {SystemCategory("groceries"), SystemCategory("personal care"),
             SystemCategory("shopping")},
    {UserCategory("Groceries", "alice"), UserCategory("Shopping", "alice")},
    {} }

\* the descriptions predict is called with
Descriptions ==
  { "Walmart grocery run", "STOCK MARKET", "bought stocks", "markets",
    "groceries market", "stock markets",
    "monthly yoga class payment", "laser", "dental lab test", "movies",
    "battery", "xyzzy unrecognized merchant 123" }

\* the description of the concurrent specification; it reaches the
\* statistical stage
ColdStartDescriptions == {"xyzzy unrecognized merchant 123"}

\* what a fitted classifier answers: model.predict(...)[0] and
\* max(model.predict_proba(...)[0]); "Crafts" is a label of the training
\* corpus that has no catalog entry
ClassifierLabels == {"Groceries", "Crafts"}

ClassifierProbas == {25, 90}

ClassifierOutputs == [label : ClassifierLabels, proba : ClassifierProbas]

\* the labels of the corpus of _get_default_training_data (lines 450-539)
SyntheticLabels ==
  {"Groceries", "Dining", "Transportation", "Housing", "Income", "Shopping",
   "Utilities", "Entertainment", "Healthcare", "Education", "Fitness", "Travel",
   "Insurance", "Subscriptions", "Personal Care", "Pets", "Investment",
   "Charity", "Taxes"}

\* what a classifier answers on the features of a vectorizer of another
\* training run: ValueError (caught at line 175) when the two vocabularies
\* differ in size, some class of its own when both are capped at
\* max_features.  Which of the two is a property of the pair of objects, the
\* same at every call.
ForeignAnswers == {[kind |-> "error", label |-> "", proba |-> 0],
                   [kind |-> "answer", label |-> "Groceries", proba |-> 90]}

\* the largest number of training runs in a behaviour
MaxRuns == 2

(***************************************************************************)
(* Training corpora.  A corpus is known by where it comes from and by its  *)
(* number of examples.                                                     *)
(***************************************************************************)
\* line 62: `if transactions.count() < 50'
MinHistory == 50

\* number of examples of _get_default_training_data (19 categories, the
\* smallest with 5 examples)
SyntheticSize == 244

\* transactions_data=None
NoCorpus == [source |-> "none", size |-> 0]

SyntheticCorpus == [source |-> "synthetic", size |-> SyntheticSize]

HistoryCorpus(n) == [source |-> "history", size |-> n]

\* Transaction.objects.filter(category__isnull=False).count() at line 62
HistorySizes == {MinHistory - 1, MinHistory}

\* the corpora a caller passes to train(transactions_data)
ExplicitCorpora == {[source |-> "explicit", size |-> n] : n \in {MinHistory - 1, MinHistory}}

\* the historical corpus was not counted
NotCounted == -1

\* train() has not selected a corpus
NoTraining == [given |-> NoCorpus, counted |-> NotCounted, used |-> NoCorpus]

\* the synthetic corpus splits and fits (every class has at least 5 of its
\* 244 examples); any other corpus may be one that train_test_split,
\* fit_transform or fit rejects
MayReject(corpus) == corpus.source # "synthetic"

\* model.classes_ after fit: a classifier answers with a label of the corpus
\* it was fitted on
ClassifierOutputsOn(corpus) ==
  IF corpus.source = "synthetic"
  THEN {out \in ClassifierOutputs : out.label \in SyntheticLabels}
  ELSE ClassifierOutputs

(***************************************************************************)
(* Words for the stemmer: roots with up to two of the suffixes it strips   *)
(***************************************************************************)
Roots == {"mess", "class", "box", "stock", "buy", "purchas", "grocer", "bus",
          "se", "go", "a", "market"}

Suffixes == {"", "s", "es", "ies", "ing", "ed", "ss", "ses"}

Words == {r \o s1 \o s2 : r \in Roots, s1 \in Suffixes, s2 \in Suffixes}

\* the largest number of times the stemmer is applied to a word
MaxStems == 2

Procs == {"p1", "p2"}

(***************************************************************************)
(* The transactions table and the callers of the categorizer               *)
(***************************************************************************)
Users == {"alice", "bob"}

\* primary keys of the transactions table; NoId is pk = None of an object
\* that was never saved
TxnOrder == <<"t1", "t2", "t3", "t4">>

TxnIds == {TxnOrder[i] : i \in 1..Len(TxnOrder)}

NoId == "none"

\* confidence_score = null (models.py line 86)
NoScore == -1

\* a Transaction object, and a row of the table when exists is TRUE
Transaction(id, owner, text, cat) ==
  [id |-> id, exists |-> TRUE, user |-> owner, description |-> text,
   category |-> cat, auto_categorized |-> FALSE, confidence_score |-> NoScore]

NoTransaction ==
  [id |-> NoId, exists |-> FALSE, user |-> NoUser, description |-> "",
   category |-> None, auto_categorized |-> FALSE, confidence_score |-> NoScore]

\* the descriptions of the transactions: a rule hit, a fuzzy hit at 0.45, a
\* description that only the classifier or the fallback decides
LedgerDescriptions == {"Walmart grocery run", "laser", "xyzzy unrecognized merchant 123"}

\* the table a behaviour starts with: two uncategorized transactions of
\* alice, one of bob
InitialTransactions ==
  [id \in TxnIds |->
     CASE id = "t1" -> Transaction("t1", "alice", "Walmart grocery run", None)
       [] id = "t2" -> Transaction("t2", "alice", "laser", None)
       [] id = "t3" -> Transaction("t3", "bob", "Walmart grocery run", None)
       [] OTHER     -> NoTransaction]

\* the objects Transaction.save is called on: a new one (no pk) of alice,
\* with or without a category
NewTransactions ==
  {[Transaction(NoId, "alice", d, c) EXCEPT !.exists = FALSE] :
     d \in LedgerDescriptions, c \in {None, SystemCategory("Dining")}}

\* the user ids bulk_categorize_transactions is called with; "carol" is the
\* id of no user
TaskUserIds == {"alice", "bob", "carol"}

\* the catalogs of the application: the default one, one that lacks entries,
\* an empty one
LedgerCatalogs == {DefaultCatalog, Without({"Groceries", "Personal Care"}), {}}

\* what the caller has returned: nothing yet, None, or the dict of
\* tasks.py lines 411-415
NoReturn == [kind |-> "pending", total |-> 0, categorized |-> 0]

ReturnNone == [kind |-> "None", total |-> 0, categorized |-> 0]

\* a caller of the categorizer: Transaction.save ("save"),
\* bulk_categorize_transactions ("bulk") or Command.handle ("command"), with
\* its local variables.  at is "done" when the caller has returned; argument
\* is the object as save received it.
NoCaller ==
  [kind |-> "none", at |-> "done", object |-> NoTransaction,
   argument |-> NoTransaction, user_id |-> NoUser,
   uncategorized |-> <<>>, index |-> 0, categorized_count |-> 0,
   returned |-> NoReturn, create_categories |-> FALSE, created |-> 0]

(***************************************************************************)
(* Objects held in self.model / self.vectorizer and in the two joblib      *)
(* files.  kind "none" is Python's None in memory and a missing file on    *)
(* disk; kind "partial" is a file joblib.dump has opened but not finished  *)
(* writing.                                                                *)
(***************************************************************************)
NoObject == [kind |-> "none", run |-> 0, fitted |-> FALSE, label |-> "", proba |-> 0]

PartialFile == [kind |-> "partial", run |-> 0, fitted |-> FALSE, label |-> "", proba |-> 0]

\* TfidfVectorizer(...) of training run r, before fit_transform
NewVectorizer(r) == [kind |-> "vectorizer", run |-> r, fitted |-> FALSE, label |-> "", proba |-> 0]

\* LogisticRegression(...) of training run r, before fit
NewModel(r) == [kind |-> "model", run |-> r, fitted |-> FALSE, label |-> "", proba |-> 0]

\* truth value of an object in `if not self.model'
Truthy(obj) == obj # NoObject

NoSnapshot == [model |-> NoObject, vectorizer |-> NoObject,
               model_file |-> NoObject, vectorizer_file |-> NoObject]

VARIABLES
  catalog,          \* the rows of the categories table
  model_file,       \* content of categorizer_model.joblib
  vectorizer_file,  \* content of tfidf_vectorizer.joblib
  next_run,         \* number of the next training run
  pc,               \* pc[p]: where process p is in the code
  op,               \* op[p]: the entry point p called: "predict", "train" or "none"
  ret,              \* ret[p]: where _load_model / train return to
  self_model,       \* self.model of p's TransactionCategorizer
  self_vectorizer,  \* self.vectorizer of p's TransactionCategorizer
  description,      \* argument of predict
  user,             \* argument of predict
  rule,             \* (category, confidence) of predict
  fuzzy,            \* (fuzzy_category, fuzzy_confidence) of predict
  ml,               \* classifier answer used by predict, kind "none" if none
  result,           \* the value predict returned
  stage,            \* the return statement of predict that produced result
  before,           \* model state when train() was entered
  train_data,       \* train(): the corpus passed, the count read, the corpus used
  previous,         \* the preceding call of predict, if it had the same arguments
  foreign,          \* answer of a classifier on another run's features
  stem_word,        \* a word given to _simple_stem
  stem_out,         \* the results of applying _simple_stem to it repeatedly
  transactions,     \* the rows of the transactions table
  caller            \* caller[p]: what p's caller of the categorizer is doing

vars == <<catalog, model_file, vectorizer_file, next_run, pc, op, ret, self_model,
          self_vectorizer, description, user, rule, fuzzy, ml, result, stage, before,
          train_data, previous, foreign, stem_word, stem_out, transactions, caller>>

\* what no action of the categorizer changes
environment == <<catalog, foreign, transactions, caller>>

stemming == <<stem_word, stem_out>>

files == <<model_file, vectorizer_file>>

memory == <<self_model, self_vectorizer>>

locals == <<description, user, rule, fuzzy, ml, result, stage>>

NoAnswer == [kind |-> "none", label |-> "", proba |-> 0]

\* no preceding call with the same arguments
NoPrevious == [called |-> FALSE, model |-> NoObject, vectorizer |-> NoObject,
               result |-> NoResult]

InitWith(catalogs, foreigns, words) ==
  /\ catalog \in catalogs
  /\ foreign \in foreigns
  /\ train_data = [p \in Procs |-> NoTraining]
  /\ previous = [p \in Procs |-> NoPrevious]
  /\ stem_word \in words
  /\ stem_out = <<>>
  /\ transactions = InitialTransactions
  /\ caller = [p \in Procs |-> NoCaller]
  /\ model_file = NoObject
  /\ vectorizer_file = NoObject
  /\ next_run = 1
  /\ pc = [p \in Procs |-> "idle"]
  /\ op = [p \in Procs |-> "none"]
  /\ ret = [p \in Procs |-> "none"]
  /\ self_model = [p \in Procs |-> NoObject]
  /\ self_vectorizer = [p \in Procs |-> NoObject]
  /\ description = [p \in Procs |-> ""]
  /\ user = [p \in Procs |-> NoUser]
  /\ rule = [p \in Procs |-> NoResult]
  /\ fuzzy = [p \in Procs |-> NoResult]
  /\ ml = [p \in Procs |-> NoAnswer]
  /\ result = [p \in Procs |-> NoResult]
  /\ stage = [p \in Procs |-> "none"]
  /\ before = [p \in Procs |-> NoSnapshot]

Init == InitWith(Catalogs, ForeignAnswers, {""})

(***************************************************************************)
(* Command.create_default_categories                                       *)
(***************************************************************************)
\* Category.objects.get_or_create(name=name, is_system=True, defaults=...):
\* the catalog afterwards
GetOrCreate(categories, name) ==
  IF \E c \in categories : c.name = name /\ c.is_system
  THEN categories
  ELSE categories \cup {SystemCategory(name)}

\* the loop of lines 60-66 over the names of lines 31-58
create_default_categories(categories) ==
  LET missing == {n \in DefaultNames : GetOrCreate(categories, n) # categories}
  IN  [catalog |-> categories \cup {SystemCategory(n) : n \in missing},
       created |-> Cardinality(missing)]

\* the names the rule table (lines 374-413), the pattern table (lines
\* 196-298) and the synthetic corpus (lines 441-546) refer to
ReferencedNames ==
  {rules[i].category : i \in 1..Len(rules)}
    \cup {patterns[i].category : i \in 1..Len(patterns)}
    \cup SyntheticLabels

\* a catalog with a system entry for every name referred to
ReferencedCatalog == {SystemCategory(n) : n \in ReferencedNames}

\* every catalog a behaviour can have
AllCatalogs ==
  Catalogs \cup LedgerCatalogs \cup {ReferencedCatalog}
    \cup {create_default_categories(c).catalog : c \in Catalogs \cup LedgerCatalogs}

(***************************************************************************)
(* The two matchers are pure functions of the description and the catalog; *)
(* their values on the inputs of the model are tabulated once.             *)
(***************************************************************************)
RuleMemo == [d \in Descriptions |-> [c \in AllCatalogs |-> _rule_based_categorization(d, c)]]

FuzzyMemo == [d \in Descriptions |-> [c \in AllCatalogs |-> _fuzzy_category_match(d, c)]]

(***************************************************************************)
(* TransactionCategorizer.__init__ and _load_model                         *)
(***************************************************************************)
Goto(p, label) == pc' = [pc EXCEPT ![p] = label]

\* a caller (Transaction.save, bulk_categorize_transactions, the
\* train_categorizer command) constructs a categorizer: lines 20-25
NewCategorizer(p) ==
  /\ pc[p] = "idle"
  /\ self_model' = [self_model EXCEPT ![p] = NoObject]
  /\ self_vectorizer' = [self_vectorizer EXCEPT ![p] = NoObject]
  /\ ret' = [ret EXCEPT ![p] = "ready"]
  /\ Goto(p, "load_exists")
  /\ UNCHANGED <<environment, stemming, previous, files, next_run, op, locals, before, train_data>>

\* line 30: os.path.exists of both files
LoadExists(p) ==
  /\ pc[p] = "load_exists"
  /\ IF model_file # NoObject /\ vectorizer_file # NoObject
     THEN Goto(p, "load_model")
     ELSE Goto(p, ret[p])
  /\ UNCHANGED <<environment, stemming, previous, files, next_run, op, ret, memory, locals, before, train_data>>

\* line 31: joblib.load(self.model_path); a file that is being written does
\* not unpickle and the handler of lines 33-36 clears both attributes
LoadModel(p) ==
  /\ pc[p] = "load_model"
  /\ IF model_file = PartialFile
     THEN /\ self_model' = [self_model EXCEPT ![p] = NoObject]
          /\ self_vectorizer' = [self_vectorizer EXCEPT ![p] = NoObject]
          /\ Goto(p, ret[p])
     ELSE /\ self_model' = [self_model EXCEPT ![p] = model_file]
          /\ UNCHANGED self_vectorizer
          /\ Goto(p, "load_vectorizer")
  /\ UNCHANGED <<environment, stemming, previous, files, next_run, op, ret, locals, before, train_data>>

\* line 32: joblib.load(self.vectorizer_path)
LoadVectorizer(p) ==
  /\ pc[p] = "load_vectorizer"
  /\ IF vectorizer_file = PartialFile
     THEN /\ self_model' = [self_model EXCEPT ![p] = NoObject]
          /\ self_vectorizer' = [self_vectorizer EXCEPT ![p] = NoObject]
     ELSE /\ self_vectorizer' = [self_vectorizer EXCEPT ![p] = vectorizer_file]
          /\ UNCHANGED self_model
  /\ Goto(p, ret[p])
  /\ UNCHANGED <<environment, stemming, previous, files, next_run, op, ret, locals, before, train_data>>

\* the caller lets go of the categorizer (Transaction.save and the Celery job
\* return, the command exits, an exception unwinds)
Drop(p) ==
  /\ pc[p] \in {"ready", "returned", "trained", "raised"}
  /\ Goto(p, "idle")
  /\ op' = [op EXCEPT ![p] = "none"]
  /\ ret' = [ret EXCEPT ![p] = "none"]
  /\ self_model' = [self_model EXCEPT ![p] = NoObject]
  /\ self_vectorizer' = [self_vectorizer EXCEPT ![p] = NoObject]
  /\ description' = [description EXCEPT ![p] = ""]
  /\ user' = [user EXCEPT ![p] = NoUser]
  /\ rule' = [rule EXCEPT ![p] = NoResult]
  /\ fuzzy' = [fuzzy EXCEPT ![p] = NoResult]
  /\ ml' = [ml EXCEPT ![p] = NoAnswer]
  /\ result' = [result EXCEPT ![p] = NoResult]
  /\ stage' = [stage EXCEPT ![p] = "none"]
  /\ before' = [before EXCEPT ![p] = NoSnapshot]
  /\ train_data' = [train_data EXCEPT ![p] = NoTraining]
  /\ previous' = [previous EXCEPT ![p] = NoPrevious]
  /\ UNCHANGED <<environment, stemming, files, next_run>>

(***************************************************************************)
(* TransactionCategorizer.train                                            *)
(***************************************************************************)
Snapshot(p) == [model |-> self_model[p], vectorizer |-> self_vectorizer[p],
                model_file |-> model_file, vectorizer_file |-> vectorizer_file]

\* an exception leaves train(); the call of line 147 is outside the try of
\* predict, so it leaves predict as well
Raise(p) == Goto(p, "raised")

\* Command.handle line 23: categorizer.train(); data is the argument
\* transactions_data, NoCorpus when it is omitted
TrainCall(p, data) ==
  /\ pc[p] = "ready"
  /\ op' = [op EXCEPT ![p] = "train"]
  /\ ret' = [ret EXCEPT ![p] = "trained"]
  /\ before' = [before EXCEPT ![p] = Snapshot(p)]
  /\ train_data' = [train_data EXCEPT ![p] = [NoTraining EXCEPT !.given = data]]
  /\ Goto(p, "train_split")
  /\ UNCHANGED <<environment, stemming, previous, files, next_run, memory, locals>>

\* Variant of SelectCorpus whose test is `count() <= 50'.
\* C17_CorpusSelection does not hold of it.
SelectCorpus_AtMost50(given, n) ==
  IF given # NoCorpus
  THEN [given |-> given, counted |-> NotCounted, used |-> given]
  ELSE [given |-> given, counted |-> n,
        used |-> IF n <= MinHistory THEN SyntheticCorpus ELSE HistoryCorpus(n)]

\* Variant of SelectCorpus that applies the selection rule to a corpus passed
\* by the caller as well.  C19_ExplicitCorpus does not hold of it.
SelectCorpus_Always(given, n) ==
  [given |-> given, counted |-> n,
   used |-> IF n < MinHistory THEN SyntheticCorpus ELSE HistoryCorpus(n)]

\* lines 56-67: the corpus train() fits on.  Without an argument the
\* labelled transactions are counted (n) and used if there are at least 50,
\* else the synthetic corpus is used.
SelectCorpus(given, n) ==
  IF given # NoCorpus
  THEN [given |-> given, counted |-> NotCounted, used |-> given]
  ELSE [given |-> given, counted |-> n,
        used |-> IF n < MinHistory THEN SyntheticCorpus ELSE HistoryCorpus(n)]

\* lines 56-76: corpus selection and train_test_split, which raises on a
\* corpus it cannot stratify
TrainSplit(p) ==
  /\ pc[p] = "train_split"
  /\ \E n \in HistorySizes :
       LET selected == SelectCorpus(train_data[p].given, n)
       IN  /\ train_data' = [train_data EXCEPT ![p] = selected]
           /\ \/ Goto(p, "train_vectorize")
              \/ MayReject(selected.used) /\ Raise(p)
  /\ UNCHANGED <<environment, stemming, previous, files, next_run, op, ret, memory, locals, before>>

\* lines 79-87: self.vectorizer is replaced, then fitted
TrainVectorize(p) ==
  /\ pc[p] = "train_vectorize"
  /\ next_run <= MaxRuns
  /\ next_run' = next_run + 1
  /\ \/ /\ self_vectorizer' = [self_vectorizer EXCEPT ![p] = [NewVectorizer(next_run) EXCEPT !.fitted = TRUE]]
        /\ Goto(p, "train_fit")
     \/ /\ MayReject(train_data[p].used)
        /\ self_vectorizer' = [self_vectorizer EXCEPT ![p] = NewVectorizer(next_run)]
        /\ Raise(p)
  /\ UNCHANGED <<environment, stemming, previous, files, op, ret, self_model, locals, before, train_data>>

\* lines 90-107: self.model is replaced, then fitted; a fitted classifier
\* answers with one of ClassifierOutputs
TrainFit(p) ==
  /\ pc[p] = "train_fit"
  /\ \/ \E out \in ClassifierOutputsOn(train_data[p].used) :
          /\ self_model' = [self_model EXCEPT ![p] =
                 [NewModel(self_vectorizer[p].run) EXCEPT
                     !.fitted = TRUE, !.label = out.label, !.proba = out.proba]]
          /\ Goto(p, "save_model_open")
     \/ /\ MayReject(train_data[p].used)
        /\ self_model' = [self_model EXCEPT ![p] = NewModel(self_vectorizer[p].run)]
        /\ Raise(p)
  /\ UNCHANGED <<environment, stemming, previous, files, next_run, op, ret, self_vectorizer, locals, before, train_data>>

\* lines 40-41: os.makedirs, then joblib.dump opens categorizer_model.joblib
\* for writing; either can raise OSError
SaveModelOpen(p) ==
  /\ pc[p] = "save_model_open"
  /\ \/ /\ model_file' = PartialFile
        /\ Goto(p, "save_model_write")
     \/ /\ UNCHANGED model_file
        /\ Raise(p)
  /\ UNCHANGED <<environment, stemming, previous, vectorizer_file, next_run, op, ret, memory, locals, before, train_data>>

\* line 41: joblib.dump writes self.model
SaveModelWrite(p) ==
  /\ pc[p] = "save_model_write"
  /\ model_file' = self_model[p]
  /\ Goto(p, "save_vectorizer_open")
  /\ UNCHANGED <<environment, stemming, previous, vectorizer_file, next_run, op, ret, memory, locals, before, train_data>>

\* line 42: joblib.dump opens tfidf_vectorizer.joblib for writing, or raises
\* OSError
SaveVectorizerOpen(p) ==
  /\ pc[p] = "save_vectorizer_open"
  /\ \/ /\ vectorizer_file' = PartialFile
        /\ Goto(p, "save_vectorizer_write")
     \/ /\ UNCHANGED vectorizer_file
        /\ Raise(p)
  /\ UNCHANGED <<environment, stemming, previous, model_file, next_run, op, ret, memory, locals, before, train_data>>

\* line 42: joblib.dump writes self.vectorizer; lines 110-112: train returns
SaveVectorizerWrite(p) ==
  /\ pc[p] = "save_vectorizer_write"
  /\ vectorizer_file' = self_vectorizer[p]
  /\ Goto(p, ret[p])
  /\ UNCHANGED <<environment, stemming, previous, model_file, next_run, op, ret, memory, locals, before, train_data>>

(***************************************************************************)
(* TransactionCategorizer.predict                                          *)
(***************************************************************************)
\* `return category, confidence' at the return statement named s
Return(p, r, s) ==
  /\ result' = [result EXCEPT ![p] = r]
  /\ stage' = [stage EXCEPT ![p] = s]
  /\ Goto(p, "returned")

\* categorizer.predict(description, user): Transaction.save line 116,
\* bulk_categorize_transactions line 397.  A call that repeats the arguments
\* of the call before it on the same categorizer keeps that call's model
\* state and result in previous.
PredictCall(p, d, u) ==
  /\ pc[p] \in {"ready", "returned"}
  /\ op' = [op EXCEPT ![p] = "predict"]
  /\ description' = [description EXCEPT ![p] = d]
  /\ user' = [user EXCEPT ![p] = u]
  /\ rule' = [rule EXCEPT ![p] = NoResult]
  /\ fuzzy' = [fuzzy EXCEPT ![p] = NoResult]
  /\ ml' = [ml EXCEPT ![p] = NoAnswer]
  /\ result' = [result EXCEPT ![p] = NoResult]
  /\ stage' = [stage EXCEPT ![p] = "none"]
  /\ previous' = [previous EXCEPT ![p] =
        IF pc[p] = "returned" /\ d = description[p] /\ u = user[p]
        THEN [called |-> TRUE, model |-> self_model[p],
              vectorizer |-> self_vectorizer[p], result |-> result[p]]
        ELSE NoPrevious]
  /\ Goto(p, "rule")
  /\ UNCHANGED <<environment, stemming, files, next_run, ret, memory, before, train_data>>

\* Variant of RuleStage whose test is `confidence > 0.90', which lets a stem
\* match through to the later stages.  C26_StatisticalStageStartsEmpty does
\* not hold of it.
RuleStage_Above90(p) ==
  /\ pc[p] = "rule"
  /\ LET r == RuleMemo[description[p]][catalog]
     IN  /\ rule' = [rule EXCEPT ![p] = r]
         /\ IF r.confidence > 90
            THEN Return(p, r, "rule")
            ELSE Goto(p, "fuzzy") /\ UNCHANGED <<result, stage>>
  /\ UNCHANGED <<environment, stemming, previous, files, next_run, op, ret, memory, description, user, fuzzy, ml, before, train_data>>

\* lines 131-134, strategy 1
RuleStage(p) ==
  /\ pc[p] = "rule"
  /\ LET r == RuleMemo[description[p]][catalog]
     IN  /\ rule' = [rule EXCEPT ![p] = r]
         /\ IF r.confidence > 85
            THEN Return(p, r, "rule")
            ELSE Goto(p, "fuzzy") /\ UNCHANGED <<result, stage>>
  /\ UNCHANGED <<environment, stemming, previous, files, next_run, op, ret, memory, description, user, fuzzy, ml, before, train_data>>

\* lines 136-141, strategy 2
FuzzyStage(p) ==
  /\ pc[p] = "fuzzy"
  /\ LET f == FuzzyMemo[description[p]][catalog]
     IN  /\ fuzzy' = [fuzzy EXCEPT ![p] = f]
         /\ IF f.confidence > 40 /\ f.confidence > rule[p].confidence
            THEN Return(p, f, "fuzzy")
            ELSE Goto(p, "ml_check") /\ UNCHANGED <<result, stage>>
  /\ UNCHANGED <<environment, stemming, previous, files, next_run, op, ret, memory, description, user, rule, ml, before, train_data>>

\* lines 144-145: with no model or no vectorizer in memory, _load_model()
MlCheck(p) ==
  /\ pc[p] = "ml_check"
  /\ IF ~Truthy(self_model[p]) \/ ~Truthy(self_vectorizer[p])
     THEN Goto(p, "load_exists") /\ ret' = [ret EXCEPT ![p] = "after_load"]
     ELSE Goto(p, "ml_predict") /\ UNCHANGED ret
  /\ UNCHANGED <<environment, stemming, previous, files, next_run, op, memory, locals, before, train_data>>

\* Variant of AfterLoad that trains whether or not _load_model found a
\* model.  C25_LazyTraining does not hold of it.
AfterLoad_AlwaysTrains(p) ==
  /\ pc[p] = "after_load"
  /\ Goto(p, "train_split")
  /\ ret' = [ret EXCEPT ![p] = "ml_predict"]
  /\ before' = [before EXCEPT ![p] = Snapshot(p)]
  /\ train_data' = [train_data EXCEPT ![p] = NoTraining]
  /\ UNCHANGED <<environment, stemming, previous, files, next_run, op, memory, locals>>

\* lines 146-147: still no model after loading, self.train()
AfterLoad(p) ==
  /\ pc[p] = "after_load"
  /\ IF ~Truthy(self_model[p])
     THEN /\ Goto(p, "train_split")
          /\ ret' = [ret EXCEPT ![p] = "ml_predict"]
          /\ before' = [before EXCEPT ![p] = Snapshot(p)]
          /\ train_data' = [train_data EXCEPT ![p] = NoTraining]
     ELSE /\ Goto(p, "ml_predict")
          /\ UNCHANGED <<ret, before, train_data>>
  /\ UNCHANGED <<environment, stemming, previous, files, next_run, op, memory, locals>>

ErrorAnswer == [kind |-> "error", label |-> "", proba |-> 0]

Answer(out) == [kind |-> "answer", label |-> out.label, proba |-> out.proba]

\* Variant of ClassifierAnswers in which a classifier may answer the same
\* features differently from call to call.  C18_Deterministic does not hold
\* of it.
ClassifierAnswers_Unstable(model, vectorizer) ==
  IF ~model.fitted \/ ~vectorizer.fitted THEN {ErrorAnswer}
  ELSE {ErrorAnswer} \cup {Answer(out) : out \in ClassifierOutputs}

\* lines 151-154: what vectorizer.transform, model.predict and
\* model.predict_proba produce.  An unfitted estimator raises
\* NotFittedError.  A classifier applied to the features of a vectorizer of
\* another training run raises (feature count mismatch) or answers with some
\* class, as foreign says.  The answer is a function of the two objects and
\* the description: inference draws no random numbers.
ClassifierAnswers(model, vectorizer) ==
  IF ~model.fitted \/ ~vectorizer.fitted THEN {ErrorAnswer}
  ELSE IF model.run = vectorizer.run THEN {Answer(model)}
  ELSE {foreign}

\* lines 157-168: the catalog entry of the predicted label, the user's own
\* entry first
MlCategory(cat, label, u) ==
  LET own == IF u # NoUser THEN Category_filter_user_first(cat, label, u) ELSE None
  IN  IF own # None THEN own ELSE Category_filter_system_first(cat, label)

\* Variant of MlPredict without the test `ml_confidence > 0.25' of line 156.
\* C2_Fallback does not hold of it.
MlPredict_NoThreshold(p) ==
  /\ pc[p] = "ml_predict"
  /\ IF Truthy(self_model[p]) /\ Truthy(self_vectorizer[p])
     THEN \E a \in ClassifierAnswers(self_model[p], self_vectorizer[p]) :
            LET ml_category == MlCategory(catalog, a.label, user[p])
            IN  /\ ml' = [ml EXCEPT ![p] = a]
                /\ IF /\ a.kind = "answer"
                      /\ ml_category # None
                      /\ a.proba > Max(rule[p].confidence, fuzzy[p].confidence)
                   THEN Return(p, [category |-> ml_category, confidence |-> a.proba], "ml")
                   ELSE Goto(p, "best_previous") /\ UNCHANGED <<result, stage>>
     ELSE Goto(p, "best_previous") /\ UNCHANGED <<ml, result, stage>>
  /\ UNCHANGED <<environment, stemming, previous, files, next_run, op, ret, memory, description, user, rule, fuzzy, before, train_data>>

\* lines 149-176, strategy 3
MlPredict(p) ==
  /\ pc[p] = "ml_predict"
  /\ IF Truthy(self_model[p]) /\ Truthy(self_vectorizer[p])
     THEN \E a \in ClassifierAnswers(self_model[p], self_vectorizer[p]) :
            LET ml_category == MlCategory(catalog, a.label, user[p])
            IN  /\ ml' = [ml EXCEPT ![p] = a]
                /\ IF /\ a.kind = "answer"
                      /\ a.proba > 25
                      /\ ml_category # None
                      /\ a.proba > Max(rule[p].confidence, fuzzy[p].confidence)
                   THEN Return(p, [category |-> ml_category, confidence |-> a.proba], "ml")
                   ELSE Goto(p, "best_previous") /\ UNCHANGED <<result, stage>>
     ELSE Goto(p, "best_previous") /\ UNCHANGED <<ml, result, stage>>
  /\ UNCHANGED <<environment, stemming, previous, files, next_run, op, ret, memory, description, user, rule, fuzzy, before, train_data>>

\* Variant of BestPrevious whose last resort has confidence 0.50.
\* C11_ConfidenceProvenance does not hold of it.
BestPrevious_FallbackAtHalf(p) ==
  /\ pc[p] = "best_previous"
  /\ LET fallback == Category_get(catalog, "Shopping")
     IN  IF fuzzy[p].category # None /\ fuzzy[p].confidence > rule[p].confidence
         THEN Return(p, fuzzy[p], "previous")
         ELSE IF rule[p].category # None
         THEN Return(p, rule[p], "previous")
         ELSE IF fallback # None
         THEN Return(p, [category |-> fallback, confidence |-> 50], "fallback")
         ELSE Return(p, NoResult, "none")
  /\ UNCHANGED <<environment, stemming, previous, files, next_run, op, ret, memory, description, user, rule, fuzzy, ml, before, train_data>>

\* Variant of BestPrevious without the last resort of lines 184-188.
\* C3_NoneOnlyWithoutFallback does not hold of it.
BestPrevious_NoLastResort(p) ==
  /\ pc[p] = "best_previous"
  /\ IF fuzzy[p].category # None /\ fuzzy[p].confidence > rule[p].confidence
     THEN Return(p, fuzzy[p], "previous")
     ELSE IF rule[p].category # None
     THEN Return(p, rule[p], "previous")
     ELSE Return(p, NoResult, "none")
  /\ UNCHANGED <<environment, stemming, previous, files, next_run, op, ret, memory, description, user, rule, fuzzy, ml, before, train_data>>

\* lines 178-190, strategy 4 and the last resort
BestPrevious(p) ==
  /\ pc[p] = "best_previous"
  /\ LET fallback == Category_get(catalog, "Shopping")
     IN  IF fuzzy[p].category # None /\ fuzzy[p].confidence > rule[p].confidence
         THEN Return(p, fuzzy[p], "previous")
         ELSE IF rule[p].category # None
         THEN Return(p, rule[p], "previous")
         ELSE IF fallback # None
         THEN Return(p, [category |-> fallback, confidence |-> 20], "fallback")
         ELSE Return(p, NoResult, "none")
  /\ UNCHANGED <<environment, stemming, previous, files, next_run, op, ret, memory, description, user, rule, fuzzy, ml, before, train_data>>

(***************************************************************************)
(* Specifications                                                          *)
(***************************************************************************)
PredictUsers == {NoUser, "alice"}

Step(p, descriptions, users, corpora) ==
  \/ NewCategorizer(p)
  \/ LoadExists(p)
  \/ LoadModel(p)
  \/ LoadVectorizer(p)
  \/ Drop(p)
  \/ \E data \in corpora : TrainCall(p, data)
  \/ TrainSplit(p)
  \/ TrainVectorize(p)
  \/ TrainFit(p)
  \/ SaveModelOpen(p)
  \/ SaveModelWrite(p)
  \/ SaveVectorizerOpen(p)
  \/ SaveVectorizerWrite(p)
  \/ \E d \in descriptions, u \in users : PredictCall(p, d, u)
  \/ RuleStage(p)
  \/ FuzzyStage(p)
  \/ MlCheck(p)
  \/ AfterLoad(p)
  \/ MlPredict(p)
  \/ BestPrevious(p)

\* one categorizer at a time, every description and catalog
Next == Step("p1", Descriptions, PredictUsers, {NoCorpus} \cup ExplicitCorpora)

Spec == Init /\ [][Next]_vars

\* two processes at once, default catalog
InitConcurrent == InitWith({DefaultCatalog}, {ErrorAnswer}, {""})

NextConcurrent == \E p \in Procs : Step(p, ColdStartDescriptions, {NoUser}, {NoCorpus})

SpecConcurrent == InitConcurrent /\ [][NextConcurrent]_vars

(***************************************************************************)
(* The stemmer on its own: _simple_stem applied to a word, and again to    *)
(* its result                                                              *)
(***************************************************************************)
InitStem == InitWith({DefaultCatalog}, {ErrorAnswer}, Words)

Stem ==
  /\ Len(stem_out) < MaxStems
  /\ stem_out' = Append(stem_out, _simple_stem(IF stem_out = <<>> THEN stem_word
                                                ELSE stem_out[Len(stem_out)]))
  /\ UNCHANGED <<environment, files, next_run, pc, op, ret, memory, locals, before,
                 train_data, previous, stem_word>>

SpecStem == InitStem /\ [][Stem]_vars


(***************************************************************************)
(* The callers: Transaction.save, bulk_categorize_transactions and         *)
(* Command.handle.  Each constructs its own TransactionCategorizer.        *)
(***************************************************************************)
categorizer == <<files, next_run, pc, op, ret, memory, locals, before, train_data,
                 previous>>

Idle(p) == pc[p] = "idle" /\ caller[p].at = "done"

\* Variant of Accepted without the test of the confidence.
\* C27_SaveAutoCategorizes does not hold of it.
Accepted_AnyConfidence(r) == r.category # None

\* `if predicted_category and confidence > 0.5:' (models.py line 117,
\* tasks.py line 399)
Accepted(r) == r.category # None /\ r.confidence > 50

\* lines 118-120 of models.py, lines 400-402 of tasks.py
Categorized(object, r) ==
  [object EXCEPT !.category = r.category, !.auto_categorized = TRUE,
                 !.confidence_score = r.confidence]

\* the primary key the database gives to a new row
FreeIds == {id \in TxnIds : ~transactions[id].exists}

\* super().save(): INSERT for an object without pk, UPDATE of every column
\* for one with pk
Write(object, id) ==
  transactions' = [transactions EXCEPT ![id] = [object EXCEPT !.id = id, !.exists = TRUE]]

\* Transaction.save on a new object (models.py lines 111-122).  Without a
\* category and without pk the categorizer is constructed (line 115);
\* otherwise the object is written as it is.
SaveNew(p, object) ==
  /\ Idle(p)
  /\ FreeIds # {}
  /\ IF object.category = None /\ object.id = NoId
     THEN /\ caller' = [caller EXCEPT ![p] =
                [NoCaller EXCEPT !.kind = "save", !.at = "predict", !.object = object,
                                 !.argument = object]]
          /\ UNCHANGED transactions
     ELSE \E id \in FreeIds :
            /\ Write(object, id)
            /\ caller' = [caller EXCEPT ![p] =
                  [NoCaller EXCEPT !.kind = "save", !.object = [object EXCEPT !.id = id],
                                   !.argument = object]]
  /\ UNCHANGED <<catalog, foreign, stemming, categorizer>>

\* Transaction.save on an object loaded from the table whose category the
\* user has set or cleared (TransactionViewSet update): self.pk is set, the
\* test of line 113 fails
SaveExisting(p, id, cat) ==
  /\ Idle(p)
  /\ transactions[id].exists
  /\ LET object == [transactions[id] EXCEPT !.category = cat]
     IN  /\ IF object.category = None /\ object.id = NoId
            THEN /\ caller' = [caller EXCEPT ![p] =
                       [NoCaller EXCEPT !.kind = "save", !.at = "predict", !.object = object,
                                 !.argument = object]]
                 /\ UNCHANGED transactions
            ELSE /\ Write(object, id)
                 /\ caller' = [caller EXCEPT ![p] =
                       [NoCaller EXCEPT !.kind = "save", !.object = object,
                                        !.argument = object]]
  /\ UNCHANGED <<catalog, foreign, stemming, categorizer>>

\* models.py line 115, tasks.py line 386, train_categorizer.py line 22:
\* TransactionCategorizer()
CallerConstructs(p) ==
  /\ caller[p].at \in {"predict", "construct", "train"}
  /\ NewCategorizer(p)

\* models.py line 116: categorizer.predict(self.description, self.user)
SavePredict(p) ==
  /\ caller[p].kind = "save" /\ caller[p].at = "predict"
  /\ pc[p] = "ready"
  /\ PredictCall(p, caller[p].object.description, caller[p].object.user)

\* models.py lines 117-122: the prediction is taken if it has a category and
\* a confidence above 0.5, and the object is inserted
SaveStore(p) ==
  /\ caller[p].kind = "save" /\ caller[p].at = "predict"
  /\ pc[p] = "returned"
  /\ \E id \in FreeIds :
       LET object == IF Accepted(result[p]) THEN Categorized(caller[p].object, result[p])
                     ELSE caller[p].object
       IN  /\ Write(object, id)
           /\ caller' = [caller EXCEPT ![p].at = "done", ![p].object = [object EXCEPT !.id = id]]
  /\ UNCHANGED <<catalog, foreign, stemming, categorizer>>

\* predict raised (the lazy training run failed): save raises, nothing is
\* written
SaveRaises(p) ==
  /\ caller[p].kind = "save" /\ caller[p].at = "predict"
  /\ pc[p] = "raised"
  /\ caller' = [caller EXCEPT ![p].at = "done"]
  /\ UNCHANGED <<catalog, foreign, stemming, categorizer, transactions>>

\* Variant of Uncategorized without the filter on the user.
\* C28_BulkFrame does not hold of it.
Uncategorized_AnyUser(owner) ==
  LET rows == [i \in 1..Len(TxnOrder) |-> transactions[TxnOrder[i]]]
      Selected(row) == row.exists /\ row.category = None
  IN  SelectSeq(rows, Selected)

\* Transaction.objects.filter(user=user, category__isnull=True), evaluated
\* by the for statement of tasks.py line 396: the objects in the order of
\* Meta.ordering, which TxnOrder stands for
Uncategorized(owner) ==
  LET rows == [i \in 1..Len(TxnOrder) |-> transactions[TxnOrder[i]]]
      Selected(row) == row.exists /\ row.user = owner /\ row.category = None
  IN  SelectSeq(rows, Selected)

\* Variant of JobReturn in which count() queries the table again after the
\* loop.  C29_BulkCounts does not hold of it.
JobReturn_Recount(job) ==
  [kind |-> "dict",
   total |-> Cardinality({id \in TxnIds : /\ transactions[id].exists
                                          /\ transactions[id].user = job.user_id
                                          /\ transactions[id].category = None}),
   categorized |-> job.categorized_count]

\* tasks.py lines 405-415: uncategorized.count() is the length of the result
\* cache of the queryset the loop has evaluated
JobReturn(job) ==
  [kind |-> "dict", total |-> Len(job.uncategorized),
   categorized |-> job.categorized_count]

\* bulk_categorize_transactions(user_id), tasks.py lines 384-385: the lookup
\* of the user raises User.DoesNotExist for an unknown id, and the handler
\* of lines 417-419 returns None
BulkCall(p, id) ==
  /\ Idle(p)
  /\ caller' = [caller EXCEPT ![p] =
        IF id \in Users
        THEN [NoCaller EXCEPT !.kind = "bulk", !.at = "construct", !.user_id = id]
        ELSE [NoCaller EXCEPT !.kind = "bulk", !.user_id = id, !.returned = ReturnNone]]
  /\ UNCHANGED <<catalog, foreign, stemming, categorizer, transactions>>

\* tasks.py lines 389-396: the queryset is evaluated when the loop starts;
\* with no row the job returns at lines 405-415
BulkRead(p) ==
  /\ caller[p].kind = "bulk" /\ caller[p].at = "construct"
  /\ pc[p] = "ready"
  /\ LET job == [caller[p] EXCEPT !.uncategorized = Uncategorized(caller[p].user_id),
                                  !.index = 1]
     IN  caller' = [caller EXCEPT ![p] =
            IF Len(job.uncategorized) = 0
            THEN [job EXCEPT !.at = "done", !.returned = JobReturn(job)]
            ELSE [job EXCEPT !.at = "call"]]
  /\ UNCHANGED <<catalog, foreign, stemming, categorizer, transactions>>

\* tasks.py line 397: categorizer.predict(transaction.description, user)
BulkPredict(p) ==
  /\ caller[p].kind = "bulk" /\ caller[p].at = "call"
  /\ pc[p] = "ready"
  /\ PredictCall(p, caller[p].uncategorized[caller[p].index].description, caller[p].user_id)

\* tasks.py lines 399-403 for the transaction of this iteration, then the
\* next iteration or, after the last one, the return of lines 405-415
BulkApply(p) ==
  /\ caller[p].kind = "bulk" /\ caller[p].at = "call"
  /\ pc[p] = "returned"
  /\ LET object == caller[p].uncategorized[caller[p].index]
         job    == [caller[p] EXCEPT
                      !.index = @ + 1,
                      !.categorized_count = IF Accepted(result[p]) THEN @ + 1 ELSE @]
     IN  /\ IF Accepted(result[p])
            THEN Write(Categorized(object, result[p]), object.id)
            ELSE UNCHANGED transactions
         /\ caller' = [caller EXCEPT ![p] =
               IF job.index > Len(job.uncategorized)
               THEN [job EXCEPT !.at = "done", !.returned = JobReturn(job)]
               ELSE job]
  /\ Goto(p, "ready")
  /\ UNCHANGED <<catalog, foreign, stemming, files, next_run, op, ret, memory, locals,
                 before, train_data, previous>>

\* tasks.py lines 417-419: predict raised; the job logs and returns None
BulkFails(p) ==
  /\ caller[p].kind = "bulk" /\ caller[p].at = "call"
  /\ pc[p] = "raised"
  /\ caller' = [caller EXCEPT ![p].at = "done", ![p].returned = ReturnNone]
  /\ UNCHANGED <<catalog, foreign, stemming, categorizer, transactions>>

\* Command.handle, train_categorizer.py lines 15-20: with
\* --create-categories the default categories are created first
CommandCall(p, create_categories) ==
  /\ Idle(p)
  /\ LET seeded == create_default_categories(catalog)
     IN  IF create_categories
         THEN /\ catalog' = seeded.catalog
              /\ caller' = [caller EXCEPT ![p] =
                    [NoCaller EXCEPT !.kind = "command", !.at = "train",
                                     !.create_categories = TRUE,
                                     !.created = seeded.created]]
         ELSE /\ UNCHANGED catalog
              /\ caller' = [caller EXCEPT ![p] =
                    [NoCaller EXCEPT !.kind = "command", !.at = "train"]]
  /\ UNCHANGED <<foreign, stemming, categorizer, transactions>>

\* train_categorizer.py line 23: categorizer.train()
CommandTrain(p) ==
  /\ caller[p].kind = "command" /\ caller[p].at = "train"
  /\ pc[p] = "ready"
  /\ TrainCall(p, NoCorpus)

\* train_categorizer.py lines 25-27, or the exception of train() leaves
\* handle
CommandReturns(p) ==
  /\ caller[p].kind = "command" /\ caller[p].at = "train"
  /\ pc[p] \in {"trained", "raised"}
  /\ caller' = [caller EXCEPT ![p].at = "done"]
  /\ UNCHANGED <<catalog, foreign, stemming, categorizer, transactions>>

\* the caller has returned and its categorizer is garbage
CallerDrops(p) ==
  /\ caller[p].at = "done"
  /\ Drop(p)

\* the steps inside the categorizer
Inside(p) ==
  \/ LoadExists(p)
  \/ LoadModel(p)
  \/ LoadVectorizer(p)
  \/ TrainSplit(p)
  \/ TrainVectorize(p)
  \/ TrainFit(p)
  \/ SaveModelOpen(p)
  \/ SaveModelWrite(p)
  \/ SaveVectorizerOpen(p)
  \/ SaveVectorizerWrite(p)
  \/ RuleStage(p)
  \/ FuzzyStage(p)
  \/ MlCheck(p)
  \/ AfterLoad(p)
  \/ MlPredict(p)
  \/ BestPrevious(p)

\* a request handler, a Celery worker or the administrator's shell
Worker(p) ==
  \/ \E object \in NewTransactions : SaveNew(p, object)
  \/ SavePredict(p)
  \/ SaveStore(p)
  \/ SaveRaises(p)
  \/ \E id \in TaskUserIds : BulkCall(p, id)
  \/ BulkRead(p)
  \/ BulkPredict(p)
  \/ BulkApply(p)
  \/ BulkFails(p)
  \/ \E create_categories \in BOOLEAN : CommandCall(p, create_categories)
  \/ CommandTrain(p)
  \/ CommandReturns(p)
  \/ CallerConstructs(p)
  \/ CallerDrops(p)
  \/ Inside(p)

\* alice sets the category of her first transaction while the worker runs
Editor(p) == SaveExisting(p, "t1", SystemCategory("Dining"))

InitLedger == InitWith(LedgerCatalogs, {ErrorAnswer}, {""})

NextLedger == Worker("p1") \/ Editor("p2")

SpecLedger == InitLedger /\ [][NextLedger]_vars

(***************************************************************************)
(* Cold start: one process predicts while another runs the training        *)
(* command                                                                 *)
(***************************************************************************)
Predictor(p) ==
  \/ NewCategorizer(p)
  \/ \E d \in LedgerDescriptions : PredictCall(p, d, NoUser)
  \/ RuleStage(p)
  \/ FuzzyStage(p)
  \/ MlCheck(p)
  \/ LoadExists(p)
  \/ LoadModel(p)
  \/ LoadVectorizer(p)
  \/ AfterLoad(p)
  \/ TrainSplit(p)
  \/ TrainVectorize(p)
  \/ TrainFit(p)
  \/ SaveModelOpen(p)
  \/ SaveModelWrite(p)
  \/ SaveVectorizerOpen(p)
  \/ SaveVectorizerWrite(p)
  \/ MlPredict(p)
  \/ BestPrevious(p)
  \/ Drop(p)

Trainer(p) ==
  \/ NewCategorizer(p)
  \/ LoadExists(p)
  \/ LoadModel(p)
  \/ LoadVectorizer(p)
  \/ TrainCall(p, NoCorpus)
  \/ TrainSplit(p)
  \/ TrainVectorize(p)
  \/ TrainFit(p)
  \/ SaveModelOpen(p)
  \/ SaveModelWrite(p)
  \/ SaveVectorizerOpen(p)
  \/ SaveVectorizerWrite(p)
  \/ Drop(p)

InitLazy == InitWith({DefaultCatalog}, {ErrorAnswer}, {""})

NextLazy == Predictor("p1") \/ Trainer("p2")

SpecLazy == InitLazy /\ [][NextLazy]_vars
(***************************************************************************)
(* Vocabulary of the properties                                            *)
(***************************************************************************)
KeywordAt(pos) == rules[pos[1]].keywords[pos[2]]

\* the rule keywords that occur in d as a whole word or phrase, ignoring case
ExactOccurrences ==
  [d \in Descriptions |-> {pos \in RulePositions : WordSearch(KeywordAt(pos), Lower(d))}]

\* the single-word rule keywords whose stem is the stem of a word of d
StemOccurrences ==
  [d \in Descriptions |->
     {pos \in RulePositions :
        /\ Len(Split(KeywordAt(pos))) = 1
        /\ \E w \in SeqToSet(FindallWords(Lower(d))) :
              _simple_stem(w) = _simple_stem(KeywordAt(pos))}]

\* the category names the rule matcher and the fuzzy matcher resolve for d
\* before the catalog is consulted ("" when the matcher finds nothing): their
\* answers on a catalog that has every name of the two tables
RuleResolved ==
  [d \in Descriptions |-> _rule_based_categorization(d, DefaultCatalog).category.name]

FuzzyResolved ==
  [d \in Descriptions |-> _fuzzy_category_match(d, DefaultCatalog).category.name]

HasSystemEntry(categories, name) == SystemCategory(name) \in categories

HasSystemEntryIgnoringCase(categories, name) ==
  \E c \in categories : c.is_system /\ Lower(c.name) = Lower(name)

\* the process is inside a call of predict that has returned
Returned(p) == op[p] = "predict" /\ pc[p] = "returned"

\* the classifier gave an answer that predict admits
MlAdmitted(p) ==
  /\ ml[p].kind = "answer"
  /\ ml[p].proba > 25
  /\ MlCategory(catalog, ml[p].label, user[p]) # None

\* no stage admitted a result
NothingAdmitted(p) ==
  /\ rule[p].category = None
  /\ fuzzy[p].confidence <= 40
  /\ ~MlAdmitted(p)

TrainLabels == {"train_split", "train_vectorize", "train_fit", "save_model_open",
                "save_model_write", "save_vectorizer_open", "save_vectorizer_write"}

(***************************************************************************)
(* C1                                                                      *)
(***************************************************************************)
\* C1 as stated: whenever a rule keyword phrase occurs in the description,
\* predict returns the category of that keyword's rule with confidence >= 0.90
C1_Original ==
  \A p \in Procs :
    Returned(p) =>
      \A pos \in ExactOccurrences[description[p]] :
         /\ result[p].category.name = rules[pos[1]].category
         /\ result[p].confidence >= 90

\* C1 amended: when a rule keyword phrase occurs in the description as a whole
\* word or phrase and its rule's category has a system catalog entry, predict
\* returns at the rule stage, with confidence >= 0.90 and without consulting
\* the fuzzy matcher or the classifier, the system entry of a rule category
\* declared no later than that rule
C1_RuleShortCircuit ==
  \A p \in Procs :
    op[p] = "predict" =>
      LET hits == {pos \in ExactOccurrences[description[p]] :
                     HasSystemEntry(catalog, rules[pos[1]].category)}
      IN  hits # {} =>
            /\ pc[p] \in {"rule", "returned"}
            /\ Returned(p) =>
                 /\ stage[p] = "rule"
                 /\ result[p].confidence >= 90
                 /\ fuzzy[p] = NoResult /\ ml[p] = NoAnswer
                 /\ result[p].category \in catalog /\ result[p].category.is_system
                 /\ \E ci \in 1..Len(rules) :
                      /\ rules[ci].category = result[p].category.name
                      /\ \A pos \in hits : ci <= pos[1]

\* "STOCK MARKET": the keyword "stock" of Investment occurs, and the
\* earlier-declared Groceries (keyword "market") is returned
C1_Witness ==
  \E p \in Procs :
    /\ Returned(p) /\ description[p] = "STOCK MARKET" /\ stage[p] = "rule"
    /\ result[p] = [category |-> SystemCategory("Groceries"), confidence |-> 95]
    /\ \E pos \in ExactOccurrences["STOCK MARKET"] : rules[pos[1]].category = "Investment"

(***************************************************************************)
(* C2                                                                      *)
(***************************************************************************)
\* C2: when predict returns and no stage admitted a result (no rule hit,
\* fuzzy confidence not above 0.40, classifier probability not above 0.25 or
\* no catalog entry for its label) and the system catalog has 'Shopping',
\* the value returned is ('Shopping', 0.20)
C2_Fallback ==
  \A p \in Procs :
    (Returned(p) /\ NothingAdmitted(p) /\ HasSystemEntry(catalog, "Shopping")) =>
       /\ result[p] = [category |-> SystemCategory("Shopping"), confidence |-> 20]
       /\ stage[p] = "fallback"

\* the classifier answered with probability 0.25, and the fallback is returned
C2_Witness ==
  \E p \in Procs :
    /\ Returned(p) /\ NothingAdmitted(p)
    /\ description[p] = "xyzzy unrecognized merchant 123"
    /\ ml[p].kind = "answer" /\ ml[p].proba = 25
    /\ result[p] = [category |-> SystemCategory("Shopping"), confidence |-> 20]

(***************************************************************************)
(* C3                                                                      *)
(***************************************************************************)
\* C3: a value predict returns has no category only if it is (none, 0) and
\* the system catalog lacks 'Shopping'; with 'Shopping' in the system catalog
\* every value returned has a category; and when no stage admitted a result
\* and 'Shopping' is absent the value returned is (none, 0)
C3_NoneOnlyWithoutFallback ==
  \A p \in Procs :
    Returned(p) =>
       /\ HasSystemEntry(catalog, "Shopping") => result[p].category # None
       /\ result[p].category = None =>
             result[p] = NoResult /\ ~HasSystemEntry(catalog, "Shopping")
       /\ (NothingAdmitted(p) /\ ~HasSystemEntry(catalog, "Shopping")) =>
             result[p] = NoResult

\* the scenario of the specification: no 'Shopping', a description that
\* matches nothing, the classifier consulted, (none, 0) returned
C3_Witness ==
  \E p \in Procs :
    /\ Returned(p)
    /\ catalog = Without({"Shopping"})
    /\ description[p] = "xyzzy unrecognized merchant 123"
    /\ ml[p] # NoAnswer
    /\ result[p] = NoResult

(***************************************************************************)
(* C4                                                                      *)
(***************************************************************************)
\* C4: a call of predict does not end with an exception (not even when the
\* training run it triggers fails)
C4_PredictDoesNotRaise ==
  \A p \in Procs : op[p] = "predict" => pc[p] # "raised"

(***************************************************************************)
(* C5                                                                      *)
(***************************************************************************)
\* C5: the (model, vectorizer) pair _load_model leaves in memory comes from
\* one training run
C5_LoadedPairFromOneRun ==
  \A p \in Procs :
    (/\ pc[p] \in {"ready", "after_load"}
     /\ Truthy(self_model[p])
     /\ Truthy(self_vectorizer[p])) =>
        self_model[p].run = self_vectorizer[p].run

(***************************************************************************)
(* C6                                                                      *)
(***************************************************************************)
\* C6: at most one call of predict is inside a training run at a time
C6_SingleFlight ==
  Cardinality({p \in Procs : op[p] = "predict" /\ pc[p] \in TrainLabels}) <= 1

(***************************************************************************)
(* C7                                                                      *)
(***************************************************************************)
\* C7: when train() has raised, the two files and self.model,
\* self.vectorizer are what they were when train() was entered
C7_FailedTrainChangesNothing ==
  \A p \in Procs : pc[p] = "raised" => Snapshot(p) = before[p]

(***************************************************************************)
(* C8                                                                      *)
(***************************************************************************)
\* C8: when the name of the category a stage returns has both an entry of
\* the calling user and a system entry, predict returns the user's entry
C8_UserScopePrecedence ==
  \A p \in Procs :
    (/\ Returned(p)
     /\ stage[p] \in {"rule", "fuzzy", "ml", "previous"}
     /\ user[p] # NoUser
     /\ UserCategory(result[p].category.name, user[p]) \in catalog
     /\ SystemCategory(result[p].category.name) \in catalog) =>
        result[p].category = UserCategory(result[p].category.name, user[p])

(***************************************************************************)
(* C9                                                                      *)
(***************************************************************************)
\* C9: a system entry whose name differs only in letter case from the name
\* the rule stage resolved is what the rule stage returns, and a system entry
\* whose name differs only in letter case from 'Shopping' serves as fallback
C9_CaseInsensitiveLookup ==
  \A p \in Procs :
    /\ (/\ op[p] = "predict" /\ pc[p] # "rule"
        /\ RuleResolved[description[p]] # ""
        /\ HasSystemEntryIgnoringCase(catalog, RuleResolved[description[p]])) =>
           Lower(rule[p].category.name) = Lower(RuleResolved[description[p]])
    /\ (Returned(p) /\ HasSystemEntryIgnoringCase(catalog, "Shopping")) =>
           result[p].category # None

C11_ConfidenceProvenance ==
  \A p \in Procs :
    Returned(p) =>
      LET c == result[p].confidence
      IN  /\ c \in 0..100
          /\ stage[p] \in {"rule", "fuzzy", "ml", "previous", "fallback", "none"}
          /\ stage[p] = "rule" => (c >= 90 /\ result[p] = rule[p])
          /\ stage[p] = "fuzzy" => (c > 40 /\ c <= 85 /\ result[p] = fuzzy[p])
          /\ stage[p] = "ml" =>
                /\ ml[p].kind = "answer" /\ c = ml[p].proba
                /\ self_model[p].run = self_vectorizer[p].run => c = self_model[p].proba
          /\ stage[p] = "previous" =>
                \/ result[p] = rule[p] /\ c >= 90
                \/ result[p] = fuzzy[p] /\ c > 40 /\ c <= 85
          /\ stage[p] = "fallback" => c = 20
          /\ stage[p] = "none" => result[p] = NoResult
          /\ result[p].category = None => c = 0

\* a statistical hit with the classifier's probability 0.90
C11_Witness ==
  \E p \in Procs :
    /\ Returned(p) /\ stage[p] = "ml"
    /\ self_model[p].proba = 90 /\ self_model[p].run = self_vectorizer[p].run
    /\ result[p].confidence = 90

(***************************************************************************)
(* C12                                                                     *)
(***************************************************************************)
\* the score of every pattern on d
FuzzyScores ==
  [d \in Descriptions |->
     [i \in 1..Len(patterns) |->
        FuzzyScore(patterns[i], Lower(d), SeqToSet(Split(Lower(d))))]]

BestScore ==
  [d \in Descriptions |->
     CHOOSE s \in {FuzzyScores[d][i] : i \in 1..Len(patterns)} :
        \A i \in 1..Len(patterns) : FuzzyScores[d][i] <= s]

\* C12: the confidence the fuzzy matcher returns is in [0, 0.85]; with a
\* category it is 0.15 * best_score capped at 0.85
C12_FuzzyBounded ==
  \A p \in Procs :
    (op[p] = "predict" /\ pc[p] \notin {"rule", "fuzzy"} /\ stage[p] # "rule") =>
       /\ fuzzy[p].confidence \in 0..85
       /\ fuzzy[p].category # None =>
            fuzzy[p].confidence = IF 15 * BestScore[description[p]] > 85 THEN 85
                                  ELSE 15 * BestScore[description[p]]

\* "dental lab test" scores 9 for Healthcare: 1.35 is capped at 0.85
C12_Witness ==
  \E p \in Procs :
    /\ Returned(p) /\ description[p] = "dental lab test"
    /\ BestScore["dental lab test"] = 9
    /\ fuzzy[p] = [category |-> SystemCategory("Healthcare"), confidence |-> 85]

(***************************************************************************)
(* C13                                                                     *)
(***************************************************************************)
\* C13: stemming a stemmed word changes nothing
C13_StemIdempotent ==
  Len(stem_out) >= 2 => stem_out[2] = stem_out[1]

(***************************************************************************)
(* C14                                                                     *)
(***************************************************************************)
\* C14: the stem of "messes" is "mess"
C14_StemOfMesses ==
  (stem_word = "messes" /\ Len(stem_out) >= 1) => stem_out[1] = "mess"

(***************************************************************************)
(* C15                                                                     *)
(***************************************************************************)
\* C15 as stated: with the default catalog "monthly yoga class payment" is
\* returned as Fitness with a confidence in (0.40, 0.85]
C15_Original ==
  \A p \in Procs :
    (/\ Returned(p) /\ description[p] = "monthly yoga class payment"
     /\ catalog = DefaultCatalog) =>
        /\ result[p].category.name = "Fitness"
        /\ result[p].confidence > 40 /\ result[p].confidence <= 85

\* C15 amended: with a system entry 'Fitness' in the catalog, "monthly yoga
\* class payment" is returned by the rule stage as ('Fitness', 0.95): "yoga"
\* is a keyword of the rule of Fitness
C15_YogaIsARuleHit ==
  \A p \in Procs :
    (/\ Returned(p) /\ description[p] = "monthly yoga class payment"
     /\ HasSystemEntry(catalog, "Fitness")) =>
        /\ stage[p] = "rule"
        /\ result[p] = [category |-> SystemCategory("Fitness"), confidence |-> 95]
        /\ \E pos \in ExactOccurrences[description[p]] :
              rules[pos[1]].category = "Fitness" /\ KeywordAt(pos) = "yoga"

C15_Witness ==
  \E p \in Procs :
    /\ Returned(p) /\ description[p] = "monthly yoga class payment"
    /\ catalog = DefaultCatalog
    /\ result[p] = [category |-> SystemCategory("Fitness"), confidence |-> 95]
    /\ FuzzyResolved["monthly yoga class payment"] = "Education"

(***************************************************************************)
(* C16                                                                     *)
(***************************************************************************)
\* the keywords of d that can decide the rule stage: those that occur as a
\* whole word or by their stem and whose category has a system entry
Deciding(d, categories) ==
  {pos \in ExactOccurrences[d] \cup StemOccurrences[d] :
     HasSystemEntry(categories, rules[pos[1]].category)}

\* C16: the rule matcher returns at the first keyword, in the order of the
\* rule table, that matches and whose category has a system entry: with 0.95
\* when that keyword occurs as a whole word or phrase in the lowercased
\* description, with 0.90 when only its stem equals the stem of a token of
\* the description; a keyword of several words never matches by its stem;
\* "Walmart grocery run" yields ('Groceries', 0.95)
C16_RuleConfidence ==
  \A p \in Procs :
    (op[p] = "predict" /\ pc[p] # "rule") =>
       LET d == description[p]
           deciding == Deciding(d, catalog)
           first == CHOOSE pos \in deciding : \A q \in deciding : ~ScannedBefore(q, pos)
       IN  /\ deciding = {} => rule[p] = NoResult
           /\ deciding # {} =>
                /\ rule[p].category = SystemCategory(rules[first[1]].category)
                /\ rule[p].confidence = IF first \in ExactOccurrences[d] THEN 95 ELSE 90
                /\ rule[p].confidence = 90 => Len(Split(KeywordAt(first))) = 1
           /\ (d = "Walmart grocery run" /\ HasSystemEntry(catalog, "Groceries")) =>
                rule[p] = [category |-> SystemCategory("Groceries"), confidence |-> 95]

\* "Walmart grocery run" is returned by the rule stage as ('Groceries', 0.95)
C16_Witness ==
  \E p \in Procs :
    /\ Returned(p) /\ description[p] = "Walmart grocery run"
    /\ \E pos \in ExactOccurrences["Walmart grocery run"] : KeywordAt(pos) = "walmart"
    /\ stage[p] = "rule"
    /\ result[p] = [category |-> SystemCategory("Groceries"), confidence |-> 95]

(***************************************************************************)
(* C17                                                                     *)
(***************************************************************************)
\* train() is past its corpus selection
CorpusSelected(p) ==
  pc[p] \in {"train_vectorize", "train_fit", "save_model_open", "save_model_write",
             "save_vectorizer_open", "save_vectorizer_write", "trained"}

\* C17: train() without a corpus fits on the synthetic corpus alone when
\* fewer than 50 labelled transactions exist and on the labelled transactions
\* alone otherwise
C17_CorpusSelection ==
  \A p \in Procs :
    (CorpusSelected(p) /\ train_data[p].given = NoCorpus) =>
       /\ train_data[p].counted < 50 =>
             train_data[p].used = [source |-> "synthetic", size |-> SyntheticSize]
       /\ train_data[p].counted >= 50 =>
             train_data[p].used = [source |-> "history", size |-> train_data[p].counted]

\* 49 labelled transactions: the synthetic corpus
C17_Witness ==
  \E p \in Procs :
    /\ pc[p] = "trained" /\ train_data[p].given = NoCorpus
    /\ train_data[p].counted = 49
    /\ train_data[p].used.source = "synthetic"

C19_ExplicitCorpus ==
  \A p \in Procs :
    (CorpusSelected(p) /\ train_data[p].given # NoCorpus) =>
       /\ train_data[p].used = train_data[p].given
       /\ train_data[p].counted = NotCounted

\* a corpus of 49 examples is passed and fitted
C19_Witness ==
  \E p \in Procs :
    /\ pc[p] = "trained"
    /\ train_data[p].given = [source |-> "explicit", size |-> 49]
    /\ train_data[p].used = [source |-> "explicit", size |-> 49]

(***************************************************************************)
(* C20                                                                     *)
(***************************************************************************)
\* C20: when the classifier in memory answers with a probability above 0.25
\* and above the confidences of the rule matcher and the fuzzy matcher for
\* the description, and its label has a catalog entry, predict returns that
\* entry with that probability
C20_StatisticalWins ==
  \A p \in Procs :
    (/\ Returned(p)
     /\ self_model[p].fitted /\ self_vectorizer[p].fitted
     /\ self_model[p].run = self_vectorizer[p].run
     /\ self_model[p].proba > 25
     /\ MlCategory(catalog, self_model[p].label, user[p]) # None
     /\ self_model[p].proba > RuleMemo[description[p]][catalog].confidence
     /\ self_model[p].proba > FuzzyMemo[description[p]][catalog].confidence) =>
        result[p] = [category |-> MlCategory(catalog, self_model[p].label, user[p]),
                     confidence |-> self_model[p].proba]

(***************************************************************************)
(* C21                                                                     *)
(***************************************************************************)
\* the entry of patterns the fuzzy matcher scores highest for d, the first
\* of them when several do, and 0 when no entry scores above 0
BestPattern ==
  [d \in Descriptions |->
     IF BestScore[d] = 0 THEN 0
     ELSE CHOOSE i \in 1..Len(patterns) :
            /\ FuzzyScores[d][i] = BestScore[d]
            /\ \A j \in 1..(i - 1) : FuzzyScores[d][j] < BestScore[d]]

\* C21: when the rule matcher finds nothing, the classifier's answer is not
\* admitted and the best fuzzy score is 1 or 2 for a category of the catalog,
\* predict returns that category with confidence 0.15 or 0.30, not the
\* fallback
C21_SubThresholdResultReturned ==
  \A p \in Procs :
    (/\ Returned(p)
     /\ stage[p] \notin {"rule", "fuzzy", "ml"}
     /\ BestScore[description[p]] \in {1, 2}
     /\ HasSystemEntry(catalog, patterns[BestPattern[description[p]]].category)) =>
        result[p] = [category |-> SystemCategory(patterns[BestPattern[description[p]]].category),
                     confidence |-> 15 * BestScore[description[p]]]

(***************************************************************************)
(* C22                                                                     *)
(***************************************************************************)
\* the place of a category in the declaration order of the rule table
RuleIndex(name) == CHOOSE ci \in 1..Len(rules) : rules[ci].category = name

\* C22: the rule matcher returns the category declared first in the rule
\* table among those that have a matching keyword (as a whole word or by its
\* stem) and a system entry, and within it decides by the first such keyword;
\* "stock market" resolves to 'Groceries', declared before 'Investment', and
\* "stock markets" to ('Groceries', 0.90) although the keyword "stock" of
\* 'Investment' occurs as a whole word
C22_DeclarationOrder ==
  \A p \in Procs :
    (op[p] = "predict" /\ pc[p] # "rule") =>
       LET d == description[p]
           deciding == Deciding(d, catalog)
       IN  /\ deciding # {} <=> rule[p].category # None
           /\ rule[p].category # None =>
                LET ci == RuleIndex(rule[p].category.name)
                    ki == CHOOSE k \in {pos[2] : pos \in {q \in deciding : q[1] = ci}} :
                            \A pos \in deciding : pos[1] = ci => k <= pos[2]
                IN  /\ rule[p].category = SystemCategory(rules[ci].category)
                    /\ \A pos \in deciding : ci <= pos[1]
                    /\ \E pos \in deciding : pos[1] = ci
                    /\ rule[p].confidence = 95 <=> <<ci, ki>> \in ExactOccurrences[d]
           /\ RuleIndex("Groceries") < RuleIndex("Investment")
           /\ (/\ d \in {"STOCK MARKET", "stock markets"}
               /\ HasSystemEntry(catalog, "Groceries")) =>
                 rule[p].category = SystemCategory("Groceries")

\* "stock markets": 'Groceries' through the stem of "market" with 0.90, while
\* "stock" is a whole-word keyword of 'Investment', which has an entry
C22_Witness ==
  \E p \in Procs :
    /\ Returned(p) /\ description[p] = "stock markets"
    /\ HasSystemEntry(catalog, "Investment")
    /\ \E pos \in ExactOccurrences["stock markets"] :
          rules[pos[1]].category = "Investment" /\ KeywordAt(pos) = "stock"
    /\ \A pos \in ExactOccurrences["stock markets"] : rules[pos[1]].category # "Groceries"
    /\ result[p] = [category |-> SystemCategory("Groceries"), confidence |-> 90]

(***************************************************************************)
(* C23                                                                     *)
(***************************************************************************)
\* the score the fuzzy matcher is to give entry i of patterns on d: 2 per
\* keyword and 1 per indicator that is a substring of the lowercased
\* description, 1 per whitespace-separated word that is a keyword
StatedScore(d, i) ==
  LET lowered == Lower(d)
      tokens  == Split(lowered)
  IN  2 * Cardinality({k \in 1..Len(patterns[i].keywords) :
                          Contains(lowered, patterns[i].keywords[k])})
      + Cardinality({k \in 1..Len(patterns[i].indicators) :
                          Contains(lowered, patterns[i].indicators[k])})
      + Cardinality({tokens[k] : k \in 1..Len(tokens)}
                      \cap {patterns[i].keywords[k] : k \in 1..Len(patterns[i].keywords)})

StatedScores ==
  [d \in Descriptions |-> [i \in 1..Len(patterns) |-> StatedScore(d, i)]]

\* the first entry with the largest stated score
StatedBest ==
  [d \in Descriptions |->
     CHOOSE i \in 1..Len(patterns) :
       /\ \A j \in 1..Len(patterns) : StatedScores[d][j] <= StatedScores[d][i]
       /\ \A j \in 1..(i - 1) : StatedScores[d][j] < StatedScores[d][i]]

\* C23: the fuzzy matcher selects the entry with the largest score, the one
\* declared first among equals, each entry scored on its own as 2 per
\* keyword substring, 1 per indicator substring and 1 per description word
\* that is a keyword; it returns that category when the score is at least 3
\* and the category has a system entry
C23_FuzzyScoring ==
  \A p \in Procs :
    (op[p] = "predict" /\ pc[p] \notin {"rule", "fuzzy"} /\ stage[p] # "rule") =>
       LET d    == description[p]
           best == StatedBest[d]
           top  == StatedScores[d][best]
       IN  IF top >= 3 /\ HasSystemEntry(catalog, patterns[best].category)
           THEN /\ fuzzy[p].category = SystemCategory(patterns[best].category)
                /\ fuzzy[p].confidence = IF 15 * top > 85 THEN 85 ELSE 15 * top
           ELSE fuzzy[p] = NoResult

\* "groceries market" on a catalog without 'Groceries': 'Investment' and
\* 'Groceries' both score 3 and 'Investment', declared first, is selected
C23_Witness ==
  \E p \in Procs :
    /\ Returned(p) /\ description[p] = "groceries market"
    /\ \E i, j \in 1..Len(patterns) :
          /\ i < j
          /\ patterns[i].category = "Investment" /\ patterns[j].category = "Groceries"
          /\ StatedScores["groceries market"][i] = 3
          /\ StatedScores["groceries market"][j] = 3
          /\ StatedBest["groceries market"] = i
    /\ fuzzy[p] = [category |-> SystemCategory("Investment"), confidence |-> 45]

(***************************************************************************)
(* C24                                                                     *)
(***************************************************************************)
\* the last n characters of w, "" when w is shorter
Ending(w, n) == IF Len(w) < n THEN "" ELSE SubSeq(w, Len(w) - n + 1, Len(w))

\* the number of the first stemming rule that applies to w
StatedRule(w) ==
  IF Len(w) <= 2 THEN 1
  ELSE IF Ending(w, 3) = "ies" /\ Len(w) > 4 THEN 2
  ELSE IF Ending(w, 2) = "es" /\ Ending(w, 3) # "ses" /\ Len(w) > 3 THEN 3
  ELSE IF Ending(w, 1) = "s" /\ Ending(w, 2) # "ss" /\ Len(w) > 2 THEN 4
  ELSE IF Ending(w, 3) = "ing" /\ Len(w) > 4 THEN 5
  ELSE IF Ending(w, 2) = "ed" /\ Len(w) > 3 THEN 6
  ELSE 7

\* what rule r makes of w
StatedStem(w, r) ==
  CASE r = 2 -> SubSeq(w, 1, Len(w) - 3) \o "y"
    [] r = 3 -> SubSeq(w, 1, Len(w) - 2)
    [] r = 4 -> SubSeq(w, 1, Len(w) - 1)
    [] r = 5 -> SubSeq(w, 1, Len(w) - 3)
    [] r = 6 -> SubSeq(w, 1, Len(w) - 2)
    [] OTHER -> w

InStatisticalStage(p) ==
  /\ op[p] = "predict"
  /\ \/ pc[p] \in {"ml_check", "load_exists", "load_model", "load_vectorizer",
                   "after_load", "ml_predict", "best_previous", "raised"}
     \/ pc[p] \in TrainLabels
     \/ pc[p] = "returned" /\ stage[p] \notin {"rule", "fuzzy"}

\* the catalog has an entry of that name that the user may be given: one of
\* the user's own or a system entry
HasEntryFor(categories, name, owner) ==
  \E c \in categories :
    c.name = name /\ (c.is_system \/ (owner # NoUser /\ c.user = owner))

Steps(p) == pc'[p] # pc[p]

\* what a call of predict by p must hold at every moment
LazyTrainingState(p) ==
  /\ (op[p] = "predict" /\ pc[p] \in TrainLabels) =>
        /\ rule[p] = NoResult /\ fuzzy[p] = NoResult
        /\ ml[p] = NoAnswer
        /\ before[p].model = NoObject
  /\ (Returned(p) /\ stage[p] \in {"rule", "fuzzy"}) => ml[p] = NoAnswer
  /\ (op[p] = "predict" /\ ml[p].kind = "answer") =>
        (self_model[p].fitted /\ self_vectorizer[p].fitted)

\* what a step of a call of predict by p must do
LazyTrainingStep(p) ==
  /\ (op[p] = "predict" /\ pc[p] \in {"rule", "fuzzy"} /\ Steps(p)) =>
        /\ pc'[p] \in {"fuzzy", "returned", "ml_check"}
        /\ UNCHANGED <<self_model, self_vectorizer, model_file, vectorizer_file, next_run>>
  /\ (op[p] = "predict" /\ pc[p] = "ml_check" /\ Steps(p)) =>
        (pc'[p] = "ml_predict" <=> (self_model[p] # NoObject /\ self_vectorizer[p] # NoObject))
  /\ (op[p] = "predict" /\ pc[p] = "after_load" /\ Steps(p)) =>
        /\ pc'[p] = "train_split" <=> self_model[p] = NoObject
        /\ pc'[p] \in {"train_split", "ml_predict"}
  /\ (op[p] = "predict" /\ pc'[p] = "train_split" /\ Steps(p)) => pc[p] = "after_load"
  /\ (op[p] = "predict" /\ pc'[p] = "ml_predict" /\ Steps(p)) =>
        \/ pc[p] \in {"ml_check", "after_load"} /\ self_model[p] # NoObject
        \/ pc[p] = "save_vectorizer_write" /\ self_model[p].fitted

\* C25: predict starts a training run exactly when it gets past the rule and
\* the fuzzy stage with no model in memory and _load_model finds none; the
\* run is complete when the classifier is consulted; a call that returns at
\* the rule or the fuzzy stage loads nothing, trains nothing and leaves the
\* model in memory and the two files as they are
C25_LazyTraining ==
  /\ [](\A p \in Procs : LazyTrainingState(p))
  /\ [][\A p \in Procs : LazyTrainingStep(p)]_vars

\* a call that found no model, trained on the synthetic corpus and then got
\* an answer from the classifier it had just fitted
C25_Witness ==
  \E p \in Procs :
    /\ Returned(p) /\ stage[p] = "ml"
    /\ before[p].model = NoObject
    /\ train_data[p].used = SyntheticCorpus
    /\ self_model[p].fitted /\ self_model[p].run = self_vectorizer[p].run

(***************************************************************************)
(* C27                                                                     *)
(***************************************************************************)
\* a call of Transaction.save by p has written its object
Saved(p) ==
  /\ caller[p].kind = "save" /\ caller[p].at = "done"
  /\ caller[p].object.id # NoId

\* the call of save by p went through predict and the result is still in
\* the categorizer
SavedAfterPredict(p) == Saved(p) /\ pc[p] = "returned"

BulkSteps(p) ==
  /\ caller[p].kind = "bulk" /\ caller[p].at # "done"
  /\ caller'[p] # caller[p] \/ pc'[p] # pc[p]

\* the rows the task has read, as it read them
ReadBy(p) == {caller[p].uncategorized[i] : i \in 1..Len(caller[p].uncategorized)}

\* C28: a step of bulk_categorize_transactions(user_id) changes a row only
\* if the row is one the task read, belonging to user_id and without a
\* category when read, and predict has returned a category with a confidence
\* above 0.5 for it; the change is the three assignments.  Rows of other
\* users, rows that had a category, and rows with a weaker prediction are
\* not changed by it
C28_BulkFrame ==
  [][\A p \in Procs : BulkSteps(p) =>
       /\ \A id \in TxnIds :
            transactions'[id] # transactions[id] =>
              /\ pc[p] = "returned"
              /\ result[p].category # None /\ result[p].confidence > 50
              /\ \E object \in ReadBy(p) :
                   /\ object.id = id
                   /\ object = caller[p].uncategorized[caller[p].index]
                   /\ object.exists /\ object.user = caller[p].user_id
                   /\ object.category = None
                   /\ transactions'[id] =
                        [object EXCEPT !.category = result[p].category,
                                       !.auto_categorized = TRUE,
                                       !.confidence_score = result[p].confidence]
       /\ (pc[p] = "returned" /\ ~(result[p].category # None /\ result[p].confidence > 50)) =>
             UNCHANGED transactions
       /\ \A id \in TxnIds :
            (transactions[id].user # caller[p].user_id \/ ~transactions[id].exists) =>
               transactions'[id] = transactions[id]]_vars

\* the task for alice has returned: it categorized her first transaction,
\* left the one with a prediction of 0.45 alone, and did not touch bob's
\* transaction, which has the description of alice's first
C28_Witness ==
  \E p \in Procs :
    /\ caller[p].kind = "bulk" /\ caller[p].at = "done"
    /\ caller[p].user_id = "alice"
    /\ caller[p].returned.kind = "dict"
    /\ transactions["t1"].auto_categorized /\ transactions["t1"].category # None
    /\ transactions["t2"] = InitialTransactions["t2"]
    /\ transactions["t3"] = InitialTransactions["t3"]
    /\ transactions["t3"].description = InitialTransactions["t1"].description

(***************************************************************************)
(* C29                                                                     *)
(***************************************************************************)
\* the rows the task of p read that now carry a category it assigned
AssignedBy(p) ==
  {object \in ReadBy(p) : transactions[object.id].auto_categorized}

\* C29: in the dict the task returns, total is the number of rows of the
\* user that had no category when the task read them, categorized is the
\* number of those it assigned a category to, and categorized <= total
C29_BulkCounts ==
  \A p \in Procs :
    (caller[p].kind = "bulk" /\ caller[p].returned.kind = "dict") =>
       /\ caller[p].at = "done"
       /\ \A object \in ReadBy(p) :
            /\ object.user = caller[p].user_id
            /\ object.category = None /\ ~object.auto_categorized
       /\ caller[p].returned.total = Cardinality(ReadBy(p))
       /\ caller[p].returned.categorized = Cardinality(AssignedBy(p))
       /\ caller[p].returned.categorized <= caller[p].returned.total

\* a run that read two rows and categorized one of them
C29_Witness ==
  \E p \in Procs :
    /\ caller[p].kind = "bulk" /\ caller[p].returned.kind = "dict"
    /\ caller[p].returned.total = 2
    /\ caller[p].returned.categorized = 1

(***************************************************************************)
(* C30                                                                     *)
(***************************************************************************)
\* the catalog has every system category of create_default_categories
Seeded == DefaultCatalog \subseteq catalog

\* p enters Command.handle with --create-categories in this step
CreatesCategories(p) ==
  /\ caller'[p] # caller[p]
  /\ caller'[p].kind = "command" /\ caller'[p].at = "train"
  /\ caller'[p].create_categories

\* with the catalog seeded, the call of predict by p has lost no match: the
\* matchers answer as they do on a catalog that has every name they refer
\* to, and a label of the synthetic corpus above 0.25 is returned
NothingDropped(p) ==
  /\ pc[p] # "rule" =>
        /\ rule[p].category.name = RuleMemo[description[p]][ReferencedCatalog].category.name
        /\ rule[p].confidence = RuleMemo[description[p]][ReferencedCatalog].confidence
  /\ (Returned(p) /\ stage[p] # "rule") =>
        /\ fuzzy[p].category.name = FuzzyMemo[description[p]][ReferencedCatalog].category.name
        /\ fuzzy[p].confidence = FuzzyMemo[description[p]][ReferencedCatalog].confidence
  /\ (Returned(p) /\ ml[p].kind = "answer" /\ ml[p].proba > 25
        /\ ml[p].label \in SyntheticLabels) =>
        /\ stage[p] = "ml"
        /\ result[p].category.name = ml[p].label
        /\ result[p].confidence = ml[p].proba

\* C30: the names in the rule table, the pattern table and the synthetic
\* corpus are all names of create_default_categories; once the command has
\* run with --create-categories no rule, fuzzy or statistical match of a
\* later predict is lost in the catalog lookup; and the command run on a
\* catalog that has the system categories creates none
C30_ReferencedNamesExist ==
  /\ [](/\ ReferencedNames \subseteq DefaultNames
        /\ \A p \in Procs :
             /\ (caller[p].kind = "command" /\ caller[p].create_categories) => Seeded
             /\ (Seeded /\ op[p] = "predict") => NothingDropped(p))
  /\ [][\A p \in Procs : CreatesCategories(p) =>
          /\ catalog' = catalog \cup DefaultCatalog
          /\ caller'[p].created = Cardinality(DefaultCatalog \ catalog)
          /\ Seeded => (catalog' = catalog /\ caller'[p].created = 0)]_vars

\* a transaction was saved without category because the catalog had no
\* entry for the rule match of its description; the command has since
\* created the categories, and this run of it created none
C30_Witness ==
  \E p \in Procs :
    /\ caller[p].kind = "command" /\ caller[p].create_categories
    /\ caller[p].created = 0
    /\ Seeded
    /\ \E id \in TxnIds :
         /\ transactions[id].exists
         /\ transactions[id].description = "Walmart grocery run"
         /\ transactions[id].user = "alice"
         /\ transactions[id].category = None
         /\ id \notin {"t1", "t2", "t3"}
=============================================================================
